---- MODULE Spec2Model ----
(***************************************************************************)
(* A model of the peer-wire download engine of codecrafters-bittorrent-rust *)
(* (src/src/util, src/src/net, src/src/cmd).                                *)
(*                                                                          *)
(* Each component is a value (a record) with pure operators that are the    *)
(* methods of the Rust type, and one specification that drives it:          *)
(*   ThrottleSpec  util/throttle.rs  ThrottleQueue::queue / done            *)
(*   PieceSpec     net/piece.rs      PieceManager::new_block / insert_block *)
(*   PoolSpec      util/pool.rs      Pool::get_item, Item::drop and its task *)
(*   BrokerSpec    net/broker.rs     Broker::request_piece, the reader task  *)
(*   DownloadSpec  cmd/download.rs   run, over the Brokers of cmd/utils.rs   *)
(***************************************************************************)
EXTENDS Integers, Sequences, FiniteSets, TLC

VARIABLES
    tq,         \* the ThrottleQueue under test: waitings, processings, capacity, and what cb was given (sent)
    tqHist,     \* ghost: what the callers did to tq (items enqueued, number of done calls, the last call)
    pm,         \* the PieceManager under test: blocks (index -> Blocks) and its sender's channel
    pmHist,     \* ghost: the new_block and insert_block calls made on pm
    pool,       \* the Pool under test: items, the VecDeque behind the mutex
    handles,    \* the live Items (handles): handle id -> inner
    returning,  \* the tasks spawned by Item::drop that have not pushed yet, each with its item
    pending,    \* the number of get_item futures being awaited
    poolHist,   \* ghost: the acquisitions, drops and returns so far, and the yields of get_item
    brokers,    \* the Brokers: broker id -> queue (ThrottleQueue), pieces (PieceManager), reader (its task)
    inbound,    \* broker id -> the frames its peer has written and its reader has not read yet, and EOF
    peers,      \* broker id -> what the peer at the other end has done with the frames written to it
    calling,    \* the request_piece call in progress, if any, and where it is
    brokerHist, \* ghost: the request_piece calls made and, per call, what they did in order
    fwd,        \* broker id -> the task of broker_channels that forwards its pieces to the merged channel
    merged,     \* the merged channel of broker_channels
    rotation,   \* the RotationPool of brokers: broker ids in the order of rotation
    run,        \* cmd::download::run: the torrent, the next index to request, the pieces received
                \* (and, as a ghost, their indexes in the order of arrival)
    output,     \* the output file: whether it was written, and its bytes
    codec,      \* a message, the frame as_bytes made of it and what try_from made of the frame
    stream,     \* a TcpStream read by read_message: the bytes not read yet, the MessageBuf of the
                \* call in progress, what the calls returned (and, as a ghost, the messages sent)
    setup,      \* cmd::utils connect and broker_channels over the peers of the tracker's response
    shake,      \* Peer::connect: the Handshake sent, the peer's reply and the outcome
    magnet,     \* the retrieval of the info dictionary of a magnet link through ut_metadata
    meta,       \* a torrent and the length get_piece_length gave for one of its pieces
    locks,      \* the mutexes of a Broker: who holds each, and where the reader task and the
                \* holder's request_piece call are
    session,    \* a call of ready(): where it is, what the peer has sent and what was written to it
    pipeline,   \* a call of PeerConnection::download_piece: its block tasks and the shared TCP stream
    attempt     \* the download-piece command of main.rs: its attempts and how it ended

vars == <<tq, tqHist, pm, pmHist, pool, handles, returning, pending, poolHist,
          brokers, inbound, peers, calling, brokerHist, fwd, merged, rotation, run, output,
          codec, stream, setup, shake, magnet, meta, locks, session, pipeline, attempt>>

throttleVars == <<tq, tqHist>>

pieceVars == <<pm, pmHist>>

poolVars == <<pool, handles, returning, pending, poolHist>>

brokerVars == <<brokers, inbound, peers, calling, brokerHist>>

downloadVars == <<fwd, merged, rotation, run, output>>

wireVars == <<codec, stream, setup, shake, magnet, meta, locks, session, pipeline, attempt>>

----------------------------------------------------------------------------
(* Helpers over sequences and sets.                                         *)

Range(s) == {s[i] : i \in DOMAIN s}

Min(a, b) == IF a <= b THEN a ELSE b


----------------------------------------------------------------------------
(* Byte vectors.  A Vec<u8> is held as the sequence of its maximal runs,    *)
(* <<[b |-> byte, n |-> count], ...>>, so that a 16 KiB block is one value; *)
(* two vectors are equal iff their run sequences are.                       *)

RECURSIVE Norm(_)
Norm(rs) ==
    IF rs = <<>> THEN <<>>
    ELSE IF Head(rs).n = 0 THEN Norm(Tail(rs))
    ELSE LET rest == Norm(Tail(rs))
         IN  IF rest # <<>> /\ Head(rest).b = Head(rs).b
             THEN <<[b |-> Head(rs).b, n |-> Head(rs).n + Head(rest).n]>> \o Tail(rest)
             ELSE <<Head(rs)>> \o rest

\* The vector of the bytes s[1], ..., s[Len(s)].
RECURSIVE ToBytes(_)
ToBytes(s) ==
    IF s = <<>> THEN <<>>
    ELSE Norm(<<[b |-> Head(s), n |-> 1]>> \o ToBytes(Tail(s)))

\* vec![b; n]
Rep(b, n) == Norm(<<[b |-> b, n |-> n]>>)

\* Vec::len
RECURSIVE BytesLen(_)
BytesLen(rs) == IF rs = <<>> THEN 0 ELSE Head(rs).n + BytesLen(Tail(rs))

\* data[..k] and data[k..], for 0 <= k <= len
RECURSIVE Take(_, _)
Take(rs, k) ==
    IF k = 0 \/ rs = <<>> THEN <<>>
    ELSE IF Head(rs).n <= k THEN <<Head(rs)>> \o Take(Tail(rs), k - Head(rs).n)
    ELSE <<[b |-> Head(rs).b, n |-> k]>>

RECURSIVE Drop(_, _)
Drop(rs, k) ==
    IF k = 0 \/ rs = <<>> THEN rs
    ELSE IF Head(rs).n <= k THEN Drop(Tail(rs), k - Head(rs).n)
    ELSE <<[b |-> Head(rs).b, n |-> Head(rs).n - k]>> \o Tail(rs)

\* extend / concatenation
Cat(a, b) == Norm(a \o b)

\* data[begin..begin + block.len()].copy_from_slice(&block); the slice is in
\* range iff begin + block.len() <= data.len() (SliceInRange), else a panic.
SliceInRange(data, begin, block) == begin + BytesLen(block) <= BytesLen(data)

\* copy_from_slice into data[..block.len()], whatever begin is.
CopyFromSlice_at_front(data, begin, block) ==
    Cat(block, Drop(data, BytesLen(block)))

CopyFromSlice(data, begin, block) ==
    Cat(Cat(Take(data, begin), block), Drop(data, begin + BytesLen(block)))

\* The byte at position k (0-based) of a vector.
ByteAt(rs, k) == Head(Drop(rs, k)).b

----------------------------------------------------------------------------
(* util/bytes.rs, util/throttle.rs: keys.                                   *)
(* A Bytes20 is a SHA-1 digest or the all-zero array.  SHA-1 is modelled as *)
(* a collision-free tagging of its input.                                   *)

sha1_hash(data) == <<"sha1", data>>

ZeroHash == <<"zero">>

\* KeyHash::key_hash: of the test's TestItem (the digest of its data) and of
\* a PeerMessage (the digest of index and begin for Request and Piece, the
\* zero array for every other message).
key_hash(item) ==
    CASE item.type = "TestItem" -> sha1_hash(item.data)
      [] item.type \in {"Request", "Piece"} -> sha1_hash(<<item.index, item.begin>>)
      [] OTHER -> ZeroHash

----------------------------------------------------------------------------
(* util/throttle.rs: ThrottleQueue.                                         *)
(* The callback cb is the sender: `sent` is the sequence of items it was    *)
(* given (the test's buffer, the broker's socket).                          *)

THROTTLE_CAPACITY == 5

ThrottleQueue_new(capacity) ==
    [waitings |-> <<>>, processings |-> {}, capacity |-> capacity, sent |-> <<>>]

is_full_off_by_one(q) == Cardinality(q.processings) > q.capacity

is_full(q) == Cardinality(q.processings) >= q.capacity

push_waiting(q, item) == [q EXCEPT !.waitings = Append(@, item)]

push(q, item) ==
    [q EXCEPT !.processings = @ \cup {key_hash(item)},
              !.sent = Append(@, item)]

queue_no_throttle(q, item) == push(q, item)

queue(q, item) ==
    IF is_full(q) THEN push_waiting(q, item) ELSE push(q, item)

done(q, hash) ==
    IF hash \in q.processings
    THEN LET removed == [q EXCEPT !.processings = @ \ {hash}]
         IN  IF removed.waitings # <<>>
             THEN push([removed EXCEPT !.waitings = Tail(@)], Head(removed.waitings))
             ELSE removed
    ELSE LET SameKey(item) == key_hash(item) = hash
         IN  [q EXCEPT !.waitings = SelectSeq(@, SameKey)]

----------------------------------------------------------------------------
(* tokio::sync::mpsc: a bounded channel, as the buffer of sent values and   *)
(* whether its receiver is still alive.                                     *)

PIECE_CHANNEL_CAPACITY == 100

channel == [buf |-> <<>>, rx_alive |-> TRUE]

\* Sender::send waits while the buffer is full and the receiver is alive.
send_blocks(ch) == ch.rx_alive /\ Len(ch.buf) >= PIECE_CHANNEL_CAPACITY

\* Sender::send, once it does not wait: Err iff the receiver is gone.
send_fails(ch) == ~ch.rx_alive

send(ch, value) == IF send_fails(ch) THEN ch ELSE [ch EXCEPT !.buf = Append(@, value)]

----------------------------------------------------------------------------
(* net/piece.rs: Blocks and PieceManager.                                   *)

\* The orders in which a HashMap with the keys S may be iterated.
RECURSIVE Orders(_)
Orders(S) ==
    IF S = {} THEN {<<>>}
    ELSE UNION {{<<x>> \o o : o \in Orders(S \ {x})} : x \in S}

Blocks_new(index, length) == [index |-> index, length |-> length, blocks |-> <<>>]

\* HashMap::insert(begin, data): a block already held at begin is replaced.
Blocks_insert_block(b, begin, data) ==
    [b EXCEPT !.blocks =
        [o \in DOMAIN b.blocks \cup {begin} |-> IF o = begin THEN data ELSE b.blocks[o]]]

RECURSIVE SumLen(_, _)
SumLen(blocks, offsets) ==
    IF offsets = {} THEN 0
    ELSE LET o == CHOOSE x \in offsets : TRUE
         IN  BytesLen(blocks[o]) + SumLen(blocks, offsets \ {o})

Blocks_len(b) == SumLen(b.blocks, DOMAIN b.blocks)

is_complete_at_least(b) == Blocks_len(b) >= b.length

is_complete(b) == Blocks_len(b) = b.length

\* The loop of into_piece over the blocks in the order `order`: the buffer,
\* or a panic when a block's slice is out of the buffer's range.
RECURSIVE WriteBlocks(_, _, _)
WriteBlocks(data, blocks, order) ==
    IF order = <<>> THEN [panic |-> FALSE, data |-> data]
    ELSE LET begin == Head(order)
         IN  IF ~SliceInRange(data, begin, blocks[begin]) THEN [panic |-> TRUE, data |-> <<>>]
             ELSE WriteBlocks(CopyFromSlice(data, begin, blocks[begin]), blocks, Tail(order))

\* into_piece, iterating the blocks in the order `order`: None, a panic, or
\* Some(Piece).
into_piece(b, order) ==
    IF ~is_complete(b) THEN [kind |-> "None"]
    ELSE LET w == WriteBlocks(Rep(0, b.length), b.blocks, order)
         IN  IF w.panic THEN [kind |-> "panic"]
             ELSE [kind |-> "Some", piece |-> [index |-> b.index, data |-> w.data]]

PieceManager_new(sender) == [blocks |-> <<>>, sender |-> sender]

\* HashMap::insert(index, Blocks::new(..)): an accumulator already open for
\* index is replaced by an empty one.
new_block(m, index, piece_length) ==
    [m EXCEPT !.blocks =
        [i \in DOMAIN m.blocks \cup {index} |->
            IF i = index THEN Blocks_new(index, piece_length) ELSE m.blocks[i]]]

remove(m, index) ==
    [m EXCEPT !.blocks = [i \in DOMAIN m.blocks \ {index} |-> m.blocks[i]]]

\* insert_block: the outcomes [m, result] the call may have, one for each
\* order in which into_piece may iterate the held blocks.  result is "Ok",
\* "ChannelClosed" (the error returned) or "panic".
insert_block(m, index, begin, data) ==
    LET m1 == IF index \in DOMAIN m.blocks
              THEN [m EXCEPT !.blocks[index] = Blocks_insert_block(@, begin, data)]
              ELSE m
    IN  IF index \in DOMAIN m1.blocks /\ is_complete(m1.blocks[index])
        THEN LET b == m1.blocks[index]
                 m2 == remove(m1, index)
             IN  { LET p == into_piece(b, order)
                   IN  IF p.kind = "panic" THEN [m |-> m2, result |-> "panic"]
                       ELSE IF p.kind = "None" THEN [m |-> m2, result |-> "Ok"]
                       ELSE IF send_fails(m2.sender) THEN [m |-> m2, result |-> "ChannelClosed"]
                       ELSE [m |-> [m2 EXCEPT !.sender = send(@, p.piece)], result |-> "Ok"]
                   : order \in Orders(DOMAIN b.blocks) }
        ELSE {[m |-> m1, result |-> "Ok"]}

\* Whether insert_block would reach send and have to wait there.
insert_block_waits(m, index, begin, data) ==
    /\ send_blocks(m.sender)
    /\ \E r \in insert_block([m EXCEPT !.sender.buf = <<>>], index, begin, data) :
          r.m.sender.buf # <<>>

----------------------------------------------------------------------------
(* util/pool.rs: Pool and Item.                                             *)
(* The mutex around the VecDeque is held from lock().await to the return or *)
(* the drop(items) with no await in between, so one pass of get_item's loop *)
(* and the body of the task spawned by Item::drop are atomic steps.         *)

Pool_new(items) == [items |-> items]

get_item_without_pop(p) ==
    IF p.items # <<>>
    THEN [ready |-> TRUE, inner |-> Head(p.items), pool |-> p]
    ELSE [ready |-> FALSE, pool |-> p]

\* One pass of the loop of get_item: the Item of the popped front, or
\* nothing (the caller yields and retries).
get_item(p) ==
    IF p.items # <<>>
    THEN [ready |-> TRUE, inner |-> Head(p.items), pool |-> [p EXCEPT !.items = Tail(@)]]
    ELSE [ready |-> FALSE, pool |-> p]

return_item_push_front(p, item) == [p EXCEPT !.items = <<item>> \o @]

return_item_lost(p, item) == p

\* The task spawned by Item::drop: items.push_back(item).
return_item(p, item) == [p EXCEPT !.items = Append(@, item)]

----------------------------------------------------------------------------
(* ThrottleSpec: a ThrottleQueue driven by any sequence of queue and done   *)
(* calls.  Items are TestItems; only equality of keys matters, so the k-th  *)
(* new key is named k.  `seq` tags an item with its position in the order   *)
(* of enqueueing; key_hash does not read it.                                *)

MaxQueued == 5

MaxDone == 3

MaxCapacity == 2

Capacities == 1..MaxCapacity

TestItem(data, seq) == [type |-> "TestItem", data |-> data, seq |-> seq]

UsedData == {tqHist.queued[i].data : i \in DOMAIN tqHist.queued}

\* The data a caller may pass next: one already used, or the next new one.
NextData == 1..(Cardinality(UsedData) + 1)

ThrottleIdle ==
    /\ tq = ThrottleQueue_new(1)
    /\ tqHist = [queued |-> <<>>, dones |-> 0, last |-> [op |-> "new"]]

PieceIdle ==
    /\ pm = PieceManager_new(channel)
    /\ pmHist = [calls |-> <<>>, panics |-> 0]

PoolIdle ==
    /\ pool = Pool_new(<<>>)
    /\ handles = <<>>
    /\ returning = <<>>
    /\ pending = 0
    /\ poolHist = [events |-> <<>>]

\* No broker has been created and no request_piece call made.
BrokerIdle ==
    /\ brokers = <<>>
    /\ inbound = <<>>
    /\ peers = <<>>
    /\ calling = [pc |-> "idle"]
    /\ brokerHist = [calls |-> <<>>, log |-> <<>>]

\* No download is running.
DownloadIdle ==
    /\ fwd = <<>>
    /\ merged = channel
    /\ rotation = <<>>
    /\ run = [state |-> "none"]
    /\ output = [written |-> FALSE, file_data |-> <<>>]

\* No message is being encoded or decoded.
CodecIdle == codec = [pc |-> "none"]

StreamIdle == stream = [pc |-> "none"]

SetupIdle == setup = [pc |-> "none"]

ShakeIdle == shake = [pc |-> "none"]

MagnetIdle == magnet = [pc |-> "none"]

MetaIdle == meta = [pc |-> "none"]

LocksIdle == locks = [pc |-> "none"]

SessionIdle == session = [pc |-> "none"]

PipelineIdle == pipeline = [pc |-> "none"]

AttemptIdle == attempt = [pc |-> "none"]

WireIdle ==
    /\ CodecIdle
    /\ StreamIdle
    /\ SetupIdle
    /\ ShakeIdle
    /\ MagnetIdle
    /\ MetaIdle
    /\ LocksIdle
    /\ SessionIdle
    /\ PipelineIdle
    /\ AttemptIdle

ThrottleInit ==
    /\ \E c \in Capacities : tq = ThrottleQueue_new(c)
    /\ tqHist = [queued |-> <<>>, dones |-> 0, last |-> [op |-> "new"]]
    /\ PieceIdle
    /\ PoolIdle
    /\ BrokerIdle
    /\ DownloadIdle
    /\ WireIdle

Queue ==
    /\ Len(tqHist.queued) < MaxQueued
    /\ \E d \in NextData :
        LET item == TestItem(d, Len(tqHist.queued) + 1)
        IN  /\ tq' = queue(tq, item)
            /\ tqHist' = [tqHist EXCEPT !.queued = Append(@, item),
                                        !.last = [op |-> "queue", item |-> item]]
    /\ UNCHANGED <<pieceVars, poolVars, brokerVars, downloadVars, wireVars>>

Done ==
    /\ tqHist.dones < MaxDone
    /\ \E d \in NextData :
        /\ tq' = done(tq, sha1_hash(d))
        /\ tqHist' = [tqHist EXCEPT !.dones = @ + 1,
                                    !.last = [op |-> "done", hash |-> sha1_hash(d)]]
    /\ UNCHANGED <<pieceVars, poolVars, brokerVars, downloadVars, wireVars>>

ThrottleNext == Queue \/ Done

ThrottleSpec == ThrottleInit /\ [][ThrottleNext]_vars

----------------------------------------------------------------------------
(* PieceSpec: a PieceManager driven by any sequence of new_block and        *)
(* insert_block calls.  pmHist.calls is the sequence of the calls made; a   *)
(* panic unwinds the caller and leaves the manager as the call left it.     *)

MaxPieceOps == 4

Indexes == {0, 1}

PieceLengths == {0, 1, 2, 3}

Offsets == {0, 1}

BlockData == {Rep(1, 0), Rep(2, 1), Rep(1, 2)}

PieceInit ==
    /\ pm = PieceManager_new(channel)
    /\ pmHist = [calls |-> <<>>, panics |-> 0]
    /\ ThrottleIdle
    /\ PoolIdle
    /\ BrokerIdle
    /\ DownloadIdle
    /\ WireIdle

NewBlock ==
    /\ Len(pmHist.calls) < MaxPieceOps
    /\ \E index \in Indexes, piece_length \in PieceLengths :
        /\ pm' = new_block(pm, index, piece_length)
        /\ pmHist' = [pmHist EXCEPT !.calls =
                Append(@, [op |-> "new_block", index |-> index, length |-> piece_length])]
    /\ UNCHANGED <<throttleVars, poolVars, brokerVars, downloadVars, wireVars>>

InsertBlock ==
    /\ Len(pmHist.calls) < MaxPieceOps
    /\ \E index \in Indexes, begin \in Offsets, data \in BlockData :
        /\ ~insert_block_waits(pm, index, begin, data)
        /\ \E r \in insert_block(pm, index, begin, data) :
            /\ pm' = r.m
            /\ pmHist' = [pmHist EXCEPT
                    !.calls = Append(@, [op |-> "insert_block", index |-> index,
                                         begin |-> begin, data |-> data, result |-> r.result,
                                         emitted |->
                                            IF Len(r.m.sender.buf) > Len(pm.sender.buf)
                                            THEN <<[piece |-> r.m.sender.buf[Len(r.m.sender.buf)],
                                                    held |-> Blocks_insert_block(pm.blocks[index],
                                                                                 begin, data)]>>
                                            ELSE <<>>]),
                    !.panics = IF r.result = "panic" THEN @ + 1 ELSE @]
    /\ UNCHANGED <<throttleVars, poolVars, brokerVars, downloadVars, wireVars>>

PieceNext == NewBlock \/ InsertBlock

PieceSpec == PieceInit /\ [][PieceNext]_vars

----------------------------------------------------------------------------
(* PoolSpec: the Pool of the test (items 1, 2, 3) under any interleaving of *)
(* get_item calls, their polls, drops of Items and the tasks the drops      *)
(* spawn.  FairPoolSpec adds that a spawned task is eventually run, as the  *)
(* tokio runtime runs every spawned task while it is alive.                 *)

MaxGetItem == 4

MaxYields == 1

PoolItems == <<1, 2, 3>>

PoolInit ==
    /\ pool = Pool_new(PoolItems)
    /\ handles = <<>>
    /\ returning = <<>>
    /\ pending = 0
    /\ poolHist = [events |-> <<>>]
    /\ ThrottleIdle
    /\ PieceIdle
    /\ BrokerIdle
    /\ DownloadIdle
    /\ WireIdle

\* The events of one kind so far, in order.
EventsOf(op) ==
    LET IsOp(e) == e.op = op IN SelectSeq(poolHist.events, IsOp)

\* The number of get_item calls made so far.
GetItemCalls == pending + Len(EventsOf("get"))

\* pool.get_item(): a future that some task awaits.
CallGetItem ==
    /\ GetItemCalls < MaxGetItem
    /\ pending' = pending + 1
    /\ UNCHANGED <<pool, handles, returning, poolHist, throttleVars, pieceVars, brokerVars, downloadVars, wireVars>>

\* A pending get_item is polled: it returns an Item, or yields.
PollGetItem ==
    /\ pending > 0
    /\ LET r == get_item(pool)
       IN  IF r.ready
           THEN /\ pool' = r.pool
                /\ handles' = [h \in DOMAIN handles \cup {Len(poolHist.events) + 1} |->
                                 IF h \in DOMAIN handles THEN handles[h] ELSE r.inner]
                /\ pending' = pending - 1
                /\ poolHist' = [poolHist EXCEPT
                        !.events = Append(@, [op |-> "get", item |-> r.inner])]
           ELSE /\ Len(EventsOf("yield")) < MaxYields
                /\ pool' = r.pool
                /\ poolHist' = [poolHist EXCEPT !.events = Append(@, [op |-> "yield"])]
                /\ UNCHANGED <<handles, pending>>
    /\ UNCHANGED <<returning, throttleVars, pieceVars, brokerVars, downloadVars, wireVars>>

\* An Item is dropped: a task holding a clone of its inner is spawned.
DropItem ==
    /\ \E h \in DOMAIN handles :
        /\ handles' = [g \in DOMAIN handles \ {h} |-> handles[g]]
        /\ returning' = Append(returning, handles[h])
        /\ poolHist' = [poolHist EXCEPT
                !.events = Append(@, [op |-> "drop", item |-> handles[h]])]
    /\ UNCHANGED <<pool, pending, throttleVars, pieceVars, brokerVars, downloadVars, wireVars>>

\* The task spawned for `item` runs: it locks the items and pushes its item.
ReturnTask(item) ==
    /\ \E k \in DOMAIN returning :
        /\ returning[k] = item
        /\ pool' = return_item(pool, item)
        /\ returning' = SubSeq(returning, 1, k - 1) \o SubSeq(returning, k + 1, Len(returning))
        /\ poolHist' = [poolHist EXCEPT
                !.events = Append(@, [op |-> "return", item |-> item])]
    /\ UNCHANGED <<handles, pending, throttleVars, pieceVars, brokerVars, downloadVars, wireVars>>

PoolNext ==
    \/ CallGetItem
    \/ PollGetItem
    \/ DropItem
    \/ \E item \in Range(PoolItems) : ReturnTask(item)

PoolSpec == PoolInit /\ [][PoolNext]_vars

FairPoolSpec ==
    PoolSpec /\ \A item \in Range(PoolItems) : WF_vars(ReturnTask(item))

----------------------------------------------------------------------------
(* net/broker.rs: the Broker, its reader task and the peer at the other end *)
(* of the connection.                                                       *)
(* The queue mutex is held for one ThrottleQueue::queue call (the write to  *)
(* the peer included) by Broker::queue, and by the reader from before done  *)
(* to the end of the iteration; every step below is one such critical       *)
(* section.  Offsets and lengths stay below 2^32 (Info::piece_length is a   *)
(* u32), so the `as u32` casts of send_piece_request keep their values.     *)

BLOCK_SIZE == 16384

Request(index, begin, length) ==
    [type |-> "Request", index |-> index, begin |-> begin, length |-> length]

PieceMessage(index, begin, block) ==
    [type |-> "Piece", index |-> index, begin |-> begin, block |-> block]

Choke == [type |-> "Choke"]

\* Broker::new: the queue, the reassembler with the sending end of the piece
\* channel, and the spawned reader task.
Broker_new ==
    [queue |-> ThrottleQueue_new(THROTTLE_CAPACITY),
     pieces |-> PieceManager_new(channel),
     reader |-> "running"]

block_size_fixed(offset, piece_length) == BLOCK_SIZE

block_size(offset, piece_length) == Min(BLOCK_SIZE, piece_length - offset)

new_piece(b, index, length) == [b EXCEPT !.pieces = new_block(@, index, length)]

\* Broker::queue: ThrottleQueue::queue under the queue mutex; what the
\* callback writes to the peer is appended to queue.sent.
Broker_queue(b, msg) == [b EXCEPT !.queue = queue(@, msg)]

\* The iteration without the call of done.
reader_message_without_done(b, msg) ==
    IF msg.type = "Piece"
    THEN { [b EXCEPT !.pieces = r.m,
                     !.reader = IF r.result = "Ok" THEN "running"
                                ELSE IF r.result = "panic" THEN "panicked"
                                ELSE "stopped"]
           : r \in insert_block(b.pieces, msg.index, msg.begin, msg.block) }
    ELSE {b}

\* One iteration of the reader's loop for the frame msg: the Brokers it may
\* leave (one for each outcome of insert_block).  done is called with the
\* key of every frame, whatever its type.
reader_message(b, msg) ==
    LET acked == [b EXCEPT !.queue = done(@, key_hash(msg))]
    IN  IF msg.type = "Piece"
        THEN { [acked EXCEPT !.pieces = r.m,
                             !.reader = IF r.result = "Ok" THEN "running"
                                        ELSE IF r.result = "panic" THEN "panicked"
                                        ELSE "stopped"]
               : r \in insert_block(acked.pieces, msg.index, msg.begin, msg.block) }
        ELSE {acked}

\* Whether that iteration would have to wait for room in the piece channel.
reader_waits(b, msg) ==
    msg.type = "Piece" /\ insert_block_waits(b.pieces, msg.index, msg.begin, msg.block)

\* The bytes of the torrent: every byte of piece `index` is index + 1.
\* What a corrupting peer sends instead has no byte in common with them.
Content(index, length) == Rep(index + 1, length)

Corrupted(index, length) == Rep(255, length)

----------------------------------------------------------------------------
(* BrokerSpec: one Broker on a connection to a peer that answers Requests   *)
(* in the order received, may send a Choke and may close the connection;    *)
(* the holder of the Broker calls request_piece with any index and length.  *)

MaxCalls == 2

MaxChokes == 1

RequestIndexes == {0, 1}

\* Lengths of 0, 1 and 3 blocks, with and without a remainder.
RequestLengths == {0, 7232, BLOCK_SIZE, 2 * BLOCK_SIZE + 1}

Peer_new == [answered |-> 0, corrupt |-> 0, chokes |-> 0]

\* How many Chokes / corrupted blocks the peers have sent, all together.
RECURSIVE Chokes(_)
Chokes(ps) == IF ps = <<>> THEN 0 ELSE Head(ps).chokes + Chokes(Tail(ps))

RECURSIVE Corrupts(_)
Corrupts(ps) == IF ps = <<>> THEN 0 ELSE Head(ps).corrupt + Corrupts(Tail(ps))

Inbound_new == [frames |-> <<>>, closed |-> FALSE]

BrokerInit ==
    /\ brokers = <<Broker_new>>
    /\ inbound = <<Inbound_new>>
    /\ peers = <<Peer_new>>
    /\ calling = [pc |-> "idle"]
    /\ brokerHist = [calls |-> <<>>, log |-> <<>>]
    /\ ThrottleIdle
    /\ PieceIdle
    /\ PoolIdle
    /\ DownloadIdle
    /\ WireIdle

\* request_piece(index, piece_length) on broker b, up to the first queue
\* call: new_piece, and the call returns at once when there is nothing to
\* request.
StartRequestPiece(b, index, piece_length) ==
    /\ calling.pc = "idle"
    /\ brokers' = [brokers EXCEPT ![b] = new_piece(@, index, piece_length)]
    /\ calling' = IF 0 < piece_length
                  THEN [pc |-> "send_piece_request", broker |-> b, index |-> index,
                        piece_length |-> piece_length, offset |-> 0]
                  ELSE [pc |-> "idle"]
    /\ brokerHist' =
        [brokerHist EXCEPT
            !.calls = Append(@, [broker |-> b, index |-> index, piece_length |-> piece_length]),
            !.log = Append(@, [call |-> Len(brokerHist.calls) + 1, op |-> "new_piece",
                               index |-> index, length |-> piece_length])]

RequestPiece ==
    /\ Len(brokerHist.calls) < MaxCalls
    /\ \E index \in RequestIndexes, piece_length \in RequestLengths :
          StartRequestPiece(1, index, piece_length)
    /\ UNCHANGED <<inbound, peers, throttleVars, pieceVars, poolVars, downloadVars, wireVars>>

\* One iteration of the loop of send_piece_request; the call returns after
\* the iteration that reaches piece_length.
SendPieceRequest ==
    /\ calling.pc = "send_piece_request"
    /\ LET size == block_size(calling.offset, calling.piece_length)
           request_msg == Request(calling.index, calling.offset, size)
       IN  /\ brokers' = [brokers EXCEPT ![calling.broker] = Broker_queue(@, request_msg)]
           /\ calling' = IF calling.offset + size < calling.piece_length
                         THEN [calling EXCEPT !.offset = @ + size]
                         ELSE [pc |-> "idle"]
           /\ brokerHist' = [brokerHist EXCEPT
                  !.log = Append(@, [call |-> Len(brokerHist.calls), op |-> "queue",
                                     msg |-> request_msg])]
    /\ UNCHANGED <<inbound, peers, throttleVars, pieceVars, poolVars, downloadVars, wireVars>>

\* The reader task of broker b reads the next frame and handles it.
ReaderMessage(b) ==
    /\ brokers[b].reader = "running"
    /\ inbound[b].frames # <<>>
    /\ LET msg == Head(inbound[b].frames)
       IN  /\ ~reader_waits(brokers[b], msg)
           /\ \E next \in reader_message(brokers[b], msg) :
                 brokers' = [brokers EXCEPT ![b] = next]
    /\ inbound' = [inbound EXCEPT ![b].frames = Tail(@)]
    /\ UNCHANGED <<peers, calling, brokerHist, throttleVars, pieceVars, poolVars, downloadVars, wireVars>>

\* reader.next() yields None or an error: the stream has ended.  The task
\* leaves its loop; the Broker, and with it the PieceManager and the sending
\* end of the piece channel, stays with its holder.
ReaderEnd(b) ==
    /\ brokers[b].reader = "running"
    /\ inbound[b].frames = <<>>
    /\ inbound[b].closed
    /\ brokers' = [brokers EXCEPT ![b].reader = "stopped"]
    /\ UNCHANGED <<inbound, peers, calling, brokerHist, throttleVars, pieceVars, poolVars,
                   downloadVars, wireVars>>

\* The peer of broker b answers the oldest Request it has not answered, with
\* the block requested.
PeerAnswer(b) ==
    /\ ~inbound[b].closed
    /\ peers[b].answered < Len(brokers[b].queue.sent)
    /\ LET req == brokers[b].queue.sent[peers[b].answered + 1]
       IN  inbound' = [inbound EXCEPT ![b].frames =
               Append(@, PieceMessage(req.index, req.begin, Content(req.index, req.length)))]
    /\ peers' = [peers EXCEPT ![b].answered = @ + 1]
    /\ UNCHANGED <<brokers, calling, brokerHist, throttleVars, pieceVars, poolVars, downloadVars, wireVars>>

PeerChoke(b) ==
    /\ ~inbound[b].closed
    /\ Chokes(peers) < MaxChokes
    /\ inbound' = [inbound EXCEPT ![b].frames = Append(@, Choke)]
    /\ peers' = [peers EXCEPT ![b].chokes = @ + 1]
    /\ UNCHANGED <<brokers, calling, brokerHist, throttleVars, pieceVars, poolVars, downloadVars, wireVars>>

PeerClose(b) ==
    /\ ~inbound[b].closed
    /\ inbound' = [inbound EXCEPT ![b].closed = TRUE]
    /\ UNCHANGED <<brokers, peers, calling, brokerHist, throttleVars, pieceVars, poolVars,
                   downloadVars, wireVars>>

BrokerNext ==
    \/ RequestPiece
    \/ SendPieceRequest
    \/ ReaderMessage(1)
    \/ ReaderEnd(1)
    \/ PeerAnswer(1)
    \/ PeerChoke(1)
    \/ PeerClose(1)

BrokerSpec == BrokerInit /\ [][BrokerNext]_vars

----------------------------------------------------------------------------
(* cmd/download.rs, cmd/utils.rs: the download coordinator.                 *)

\* meta::Info, as far as the coordinator reads it.
Info(piece_length, length) == [piece_length |-> piece_length, length |-> length]

\* Info::num_pieces, for a torrent whose `pieces` holds one hash per piece.
num_pieces(info) == (info.length + info.piece_length - 1) \div info.piece_length

\* The piece-length function: the regular piece length for every index but
\* the last, and the rest of the file for the last.
piece_length(info, index) ==
    IF index < num_pieces(info) - 1 THEN info.piece_length
    ELSE info.length - info.piece_length * (num_pieces(info) - 1)

\* Info::piece_hashes: the expected SHA-1 of every piece, by index + 1.
piece_hashes(info) ==
    [k \in 1..num_pieces(info) |-> sha1_hash(Content(k - 1, piece_length(info, k - 1)))]

\* get_item that hands out the head and leaves it at the head.
RotationPool_get_item_no_rotation(p) == [inner |-> Head(p), pool |-> p]

\* RotationPool::get_item: the next broker in round-robin order.
RotationPool_get_item(p) == [inner |-> Head(p), pool |-> Append(Tail(p), Head(p))]

sort_by_index_unsorted(pieces) == pieces

\* pieces.sort_by_key(|p| p.index): a stable sort.
RECURSIVE sort_by_index(_)
sort_by_index(pieces) ==
    IF pieces = <<>> THEN <<>>
    ELSE LET first == Head(pieces)
             Before(p) == p.index < first.index
             NotBefore(p) == ~(p.index < first.index)
             rest == sort_by_index(Tail(pieces))
         IN  SelectSeq(rest, Before) \o <<first>> \o SelectSeq(rest, NotBefore)

\* pieces.into_iter().flat_map(|d| d.data).collect()
RECURSIVE flat_data(_)
flat_data(pieces) ==
    IF pieces = <<>> THEN <<>> ELSE Cat(Head(pieces).data, flat_data(Tail(pieces)))

----------------------------------------------------------------------------
(* DownloadSpec: run of cmd/download.rs from the return of broker_channels, *)
(* with one Broker per peer that got through ready(), each on a connection  *)
(* to a peer as in BrokerSpec that may also answer a Request with corrupted *)
(* bytes.  The merged channel's senders live in the forwarding tasks, which *)
(* end only when a Broker's piece channel closes; the Brokers are held by   *)
(* run for its whole length, so piece_rx.recv() never yields None.          *)

MaxPeers == 2

MaxCorrupt == 1

Torrents == {Info(2 * BLOCK_SIZE, 40000), Info(BLOCK_SIZE, 40000)}

DownloadInit ==
    /\ \E k \in 1..MaxPeers :
          /\ brokers = [b \in 1..k |-> Broker_new]
          /\ inbound = [b \in 1..k |-> Inbound_new]
          /\ peers = [b \in 1..k |-> Peer_new]
          /\ fwd = [b \in 1..k |-> "running"]
          /\ rotation = [b \in 1..k |-> b]
    /\ merged = channel
    /\ \E info \in Torrents :
          run = [state |-> "running", info |-> info, index |-> 0, pieces |-> <<>>,
                 received |-> <<>>]
    /\ output = [written |-> FALSE, file_data |-> <<>>]
    /\ calling = [pc |-> "idle"]
    /\ brokerHist = [calls |-> <<>>, log |-> <<>>]
    /\ ThrottleIdle
    /\ PieceIdle
    /\ PoolIdle
    /\ WireIdle

\* The loop over the piece indexes: get_item, piece_length, request_piece.
RunRequestPiece ==
    /\ run.state = "running"
    /\ run.index < num_pieces(run.info)
    /\ LET got == RotationPool_get_item(rotation)
       IN  /\ StartRequestPiece(got.inner, run.index, piece_length(run.info, run.index))
           /\ rotation' = got.pool
    /\ run' = [run EXCEPT !.index = @ + 1]
    /\ UNCHANGED <<inbound, peers, fwd, merged, output, throttleVars, pieceVars, poolVars, wireVars>>

\* The task spawned by broker_channels for broker b: a piece received from
\* the Broker is sent on to the merged channel; the task ends when that
\* channel is closed, dropping the receiving end of the Broker's channel.
Forward(b) ==
    /\ fwd[b] = "running"
    /\ brokers[b].pieces.sender.buf # <<>>
    /\ ~send_blocks(merged)
    /\ LET piece == Head(brokers[b].pieces.sender.buf)
       IN  /\ merged' = send(merged, piece)
           /\ brokers' = [brokers EXCEPT ![b].pieces.sender =
                             [buf |-> Tail(@.buf),
                              rx_alive |-> @.rx_alive /\ ~send_fails(merged)]]
           /\ fwd' = [fwd EXCEPT ![b] = IF send_fails(merged) THEN "stopped" ELSE @]
    /\ UNCHANGED <<inbound, peers, calling, brokerHist, rotation, run, output,
                   throttleVars, pieceVars, poolVars, wireVars>>

\* The receiving loop: a piece is pushed; with pieces.len() == hashes.len()
\* the loop is left, the pieces are sorted and written, and run returns.
RunRecv ==
    /\ run.state = "running"
    /\ run.index = num_pieces(run.info)
    /\ calling.pc = "idle"
    /\ merged.buf # <<>>
    /\ LET pieces == Append(run.pieces, Head(merged.buf))
       IN  IF Len(pieces) = num_pieces(run.info)
           THEN /\ run' = [run EXCEPT !.state = "done", !.pieces = sort_by_index(pieces),
                                       !.received = Append(@, Head(merged.buf).index)]
                /\ output' = [written |-> TRUE, file_data |-> flat_data(sort_by_index(pieces))]
                /\ merged' = [buf |-> Tail(merged.buf), rx_alive |-> FALSE]
           ELSE /\ run' = [run EXCEPT !.pieces = pieces,
                                       !.received = Append(@, Head(merged.buf).index)]
                /\ merged' = [merged EXCEPT !.buf = Tail(@)]
                /\ UNCHANGED output
    /\ UNCHANGED <<brokerVars, fwd, rotation, throttleVars, pieceVars, poolVars, wireVars>>

\* The peer of broker b answers the oldest Request it has not answered, with
\* bytes that are not the block's.
PeerCorrupt(b) ==
    /\ ~inbound[b].closed
    /\ Corrupts(peers) < MaxCorrupt
    /\ peers[b].answered < Len(brokers[b].queue.sent)
    /\ LET req == brokers[b].queue.sent[peers[b].answered + 1]
       IN  inbound' = [inbound EXCEPT ![b].frames =
               Append(@, PieceMessage(req.index, req.begin, Corrupted(req.index, req.length)))]
    /\ peers' = [peers EXCEPT ![b].answered = @ + 1, ![b].corrupt = @ + 1]
    /\ UNCHANGED <<brokers, calling, brokerHist, throttleVars, pieceVars, poolVars, downloadVars, wireVars>>

DownloadNext ==
    \/ RunRequestPiece
    \/ SendPieceRequest
    \/ RunRecv
    \/ \E b \in DOMAIN brokers : ReaderMessage(b)
    \/ \E b \in DOMAIN brokers : ReaderEnd(b)
    \/ \E b \in DOMAIN brokers : Forward(b)
    \/ \E b \in DOMAIN brokers : PeerAnswer(b)
    \/ \E b \in DOMAIN brokers : PeerCorrupt(b)
    \/ \E b \in DOMAIN brokers : PeerChoke(b)
    \/ \E b \in DOMAIN brokers : PeerClose(b)

DownloadSpec == DownloadInit /\ [][DownloadNext]_vars

----------------------------------------------------------------------------
(* The wire.  What is written to or read from a socket is the sequence of   *)
(* its bytes (numbers 0..255); Expand and ToBytes convert between a Vec<u8>  *)
(* held in a message and its bytes on the wire.                             *)

RECURSIVE Expand(_)
Expand(rs) ==
    IF rs = <<>> THEN <<>>
    ELSE [i \in 1..Head(rs).n |-> Head(rs).b] \o Expand(Tail(rs))

\* u32::to_le_bytes
to_le_bytes(v) ==
    <<v % 256, (v \div 256) % 256, (v \div 65536) % 256, v \div 16777216>>

\* u32::to_be_bytes
to_be_bytes(v) ==
    <<v \div 16777216, (v \div 65536) % 256, (v \div 256) % 256, v % 256>>

\* u32_from_bytes: u32::from_be_bytes of bytes[0..4]
u32_from_bytes(bytes) ==
    bytes[1] * 16777216 + bytes[2] * 65536 + bytes[3] * 256 + bytes[4]

----------------------------------------------------------------------------
(* bencode/mod.rs, bencode/ser.rs, bencode/de: the Bencode values and their *)
(* Serializer and Deserializer.  A String (a dictionary key) is the         *)
(* sequence of its bytes; a dictionary is a function from keys to values.   *)

BInt(v) == [t |-> "Int", v |-> v]

BStr(v) == [t |-> "Str", v |-> v]

BList(v) == [t |-> "List", v |-> v]

BDict(v) == [t |-> "Dict", v |-> v]

\* The decimal digits of n >= 0, as written by write!("{}").
RECURSIVE Digits(_)
Digits(n) == IF n < 10 THEN <<48 + n>> ELSE Append(Digits(n \div 10), 48 + (n % 10))

\* Ord for byte strings: a sorts before b.
RECURSIVE LexLess(_, _)
LexLess(a, b) ==
    IF b = <<>> THEN FALSE
    ELSE IF a = <<>> THEN TRUE
    ELSE IF Head(a) # Head(b) THEN Head(a) < Head(b)
    ELSE LexLess(Tail(a), Tail(b))

\* keys.sort(): the keys of a set in ascending order.
RECURSIVE SortedKeys(_)
SortedKeys(S) ==
    IF S = {} THEN <<>>
    ELSE LET least == CHOOSE k \in S : \A other \in S \ {k} : LexLess(k, other)
         IN  <<least>> \o SortedKeys(S \ {least})

\* Serializer: serialize_i64, serialize_bytes / serialize_str, SerializeSeq
\* and SerializeMap (entries written at end(), sorted by key).
RECURSIVE serialize(_)
serialize(value) ==
    CASE value.t = "Int" ->
            <<105>> \o (IF value.v < 0 THEN <<45>> \o Digits(-value.v) ELSE Digits(value.v))
                    \o <<101>>
      [] value.t = "Str" ->
            Digits(BytesLen(value.v)) \o <<58>> \o Expand(value.v)
      [] value.t = "List" ->
            LET RECURSIVE Elements(_)
                Elements(k) ==
                    IF k > Len(value.v) THEN <<>>
                    ELSE serialize(value.v[k]) \o Elements(k + 1)
            IN  <<108>> \o Elements(1) \o <<101>>
      [] value.t = "Dict" ->
            LET keys == SortedKeys(DOMAIN value.v)
                RECURSIVE Entries(_)
                Entries(k) ==
                    IF k > Len(keys) THEN <<>>
                    ELSE Digits(Len(keys[k])) \o <<58>> \o keys[k]
                            \o serialize(value.v[keys[k]]) \o Entries(k + 1)
            IN  <<100>> \o Entries(1) \o <<101>>

IsDigit(b) == b \in 48..57

\* str::parse of decimal digits; a failure when there is none or another
\* byte among them.
RECURSIVE ParseDigits(_)
ParseDigits(s) ==
    IF s = <<>> THEN [ok |-> FALSE]
    ELSE IF ~IsDigit(s[Len(s)]) THEN [ok |-> FALSE]
    ELSE IF Len(s) = 1 THEN [ok |-> TRUE, v |-> s[1] - 48]
    ELSE LET front == ParseDigits(SubSeq(s, 1, Len(s) - 1))
         IN  IF front.ok THEN [ok |-> TRUE, v |-> front.v * 10 + (s[Len(s)] - 48)]
             ELSE [ok |-> FALSE]

\* read_until(byte): the bytes before the first `byte`, and what follows it.
RECURSIVE ReadUntil(_, _)
ReadUntil(s, byte) ==
    IF s = <<>> THEN [ok |-> FALSE]
    ELSE IF Head(s) = byte THEN [ok |-> TRUE, v |-> <<>>, rest |-> Tail(s)]
    ELSE LET r == ReadUntil(Tail(s), byte)
         IN  IF r.ok THEN [ok |-> TRUE, v |-> <<Head(s)>> \o r.v, rest |-> r.rest]
             ELSE [ok |-> FALSE]

\* Deserializer::num_str and parse::<i64>: "i", the digits (no "-0", no
\* leading zero), "e".
deserialize_i64(s) ==
    IF s = <<>> \/ Head(s) # 105 THEN [ok |-> FALSE]
    ELSE LET r == ReadUntil(Tail(s), 101)
         IN  IF ~r.ok \/ r.v = <<>> THEN [ok |-> FALSE]
             ELSE LET neg == Head(r.v) = 45
                      digits == IF neg THEN Tail(r.v) ELSE r.v
                      n == ParseDigits(digits)
                  IN  IF ~n.ok \/ r.v = <<45, 48>> \/ (Len(digits) > 1 /\ Head(digits) = 48)
                      THEN [ok |-> FALSE]
                      ELSE [ok |-> TRUE, v |-> IF neg THEN -n.v ELSE n.v, rest |-> r.rest]

\* Deserializer::str_or_bytes: the length, ":", and that many bytes.
str_or_bytes(s) ==
    IF s = <<>> \/ ~IsDigit(Head(s)) THEN [ok |-> FALSE]
    ELSE LET r == ReadUntil(s, 58)
             n == IF r.ok THEN ParseDigits(r.v) ELSE [ok |-> FALSE]
         IN  IF ~n.ok THEN [ok |-> FALSE]
             ELSE IF Len(r.rest) < n.v THEN [ok |-> FALSE]
             ELSE [ok |-> TRUE, v |-> SubSeq(r.rest, 1, n.v),
                   rest |-> SubSeq(r.rest, n.v + 1, Len(r.rest))]

\* Deserialize for Bencode through deserialize_any: the value at the front
\* of s and the bytes after it.  SeqAccess and MapAccess read elements and
\* entries up to the closing "e"; a later entry of a key replaces an earlier.
\* A key is a String: its bytes are UTF-8 (here: ASCII).
RECURSIVE deserialize_any(_)
deserialize_any(s) ==
    IF s = <<>> THEN [ok |-> FALSE]
    ELSE CASE Head(s) = 105 ->
                LET r == deserialize_i64(s)
                IN  IF r.ok THEN [ok |-> TRUE, v |-> BInt(r.v), rest |-> r.rest]
                    ELSE [ok |-> FALSE]
           [] IsDigit(Head(s)) ->
                LET r == str_or_bytes(s)
                IN  IF r.ok THEN [ok |-> TRUE, v |-> BStr(ToBytes(r.v)), rest |-> r.rest]
                    ELSE [ok |-> FALSE]
           [] Head(s) = 108 ->
                LET RECURSIVE Elements(_, _)
                    Elements(t, acc) ==
                        IF t = <<>> THEN [ok |-> FALSE]
                        ELSE IF Head(t) = 101
                        THEN [ok |-> TRUE, v |-> BList(acc), rest |-> Tail(t)]
                        ELSE LET e == deserialize_any(t)
                             IN  IF e.ok THEN Elements(e.rest, Append(acc, e.v))
                                 ELSE [ok |-> FALSE]
                IN  Elements(Tail(s), <<>>)
           [] Head(s) = 100 ->
                LET RECURSIVE Entries(_, _)
                    Entries(t, acc) ==
                        IF t = <<>> THEN [ok |-> FALSE]
                        ELSE IF Head(t) = 101
                        THEN [ok |-> TRUE, v |-> BDict(acc), rest |-> Tail(t)]
                        ELSE LET k == str_or_bytes(t)
                                 utf8 == k.ok /\ \A i \in DOMAIN k.v : k.v[i] < 128
                                 e == IF utf8 THEN deserialize_any(k.rest) ELSE [ok |-> FALSE]
                             IN  IF e.ok
                                 THEN Entries(e.rest,
                                        [key \in DOMAIN acc \cup {k.v} |->
                                            IF key = k.v THEN e.v ELSE acc[key]])
                                 ELSE [ok |-> FALSE]
                IN  Entries(Tail(s), <<>>)
           [] OTHER -> [ok |-> FALSE]

----------------------------------------------------------------------------
(* net/message/peer.rs, net/message/extension.rs: the messages, as_bytes    *)
(* (the frame: the length prefix and the payload) and try_from (the message *)
(* of a payload).                                                           *)

Unchoke == [type |-> "Unchoke"]

Interested == [type |-> "Interested"]

NotInterested == [type |-> "NotInterested"]

Have(index) == [type |-> "Have", index |-> index]

Bitfield(bitfield) == [type |-> "Bitfield", bitfield |-> bitfield]

Cancel(index, begin, length) ==
    [type |-> "Cancel", index |-> index, begin |-> begin, length |-> length]

Handshake(dict) == [type |-> "Handshake", dict |-> dict]

RequestMetadata(ext_id, piece) ==
    [type |-> "RequestMetadata", ext_id |-> ext_id, piece |-> piece]

Metadata(ext_id, piece, data) ==
    [type |-> "Metadata", ext_id |-> ext_id, piece |-> piece, data |-> data]

Rejected(ext_id, piece) == [type |-> "Rejected", ext_id |-> ext_id, piece |-> piece]

MESSAGE_ID_EXTENSION == 20

MESSAGE_ID_EXTENSION_HANDSHAKE == 0

\* The keys "msg_type", "piece" and "total_size".
KeyMsgType == <<109, 115, 103, 95, 116, 121, 112, 101>>

KeyPiece == <<112, 105, 101, 99, 101>>

KeyTotalSize == <<116, 111, 116, 97, 108, 95, 115, 105, 122, 101>>

is_peer_message(id) == id \in 0..8

is_extension_message(id) == id = MESSAGE_ID_EXTENSION

\* AsBytes for PeerMessage.
PeerMessage_as_bytes(m) ==
    CASE m.type = "Choke" -> to_be_bytes(1) \o <<0>>
      [] m.type = "Unchoke" -> to_be_bytes(1) \o <<1>>
      [] m.type = "Interested" -> to_be_bytes(1) \o <<2>>
      [] m.type = "NotInterested" -> to_be_bytes(1) \o <<3>>
      [] m.type = "Have" -> to_be_bytes(5) \o <<4>> \o to_be_bytes(m.index)
      [] m.type = "Bitfield" ->
            to_be_bytes(1 + BytesLen(m.bitfield)) \o <<5>> \o Expand(m.bitfield)
      [] m.type = "Request" ->
            to_be_bytes(13) \o <<6>> \o to_be_bytes(m.index) \o to_be_bytes(m.begin)
                \o to_be_bytes(m.length)
      [] m.type = "Piece" ->
            to_be_bytes(1 + 8 + BytesLen(m.block)) \o <<7>> \o to_be_bytes(m.index)
                \o to_be_bytes(m.begin) \o Expand(m.block)
      [] m.type = "Cancel" ->
            to_be_bytes(13) \o <<8>> \o to_be_bytes(m.index) \o to_be_bytes(m.begin)
                \o to_be_bytes(m.length)

\* TryFrom<&[u8]> for PeerMessage.
PeerMessage_try_from(bytes) ==
    IF bytes = <<>> THEN [ok |-> FALSE]
    ELSE LET id == bytes[1]
             payload == Tail(bytes)
             Field(k) == u32_from_bytes(SubSeq(payload, 4 * k + 1, 4 * k + 4))
         IN  CASE id = 0 -> [ok |-> TRUE, msg |-> Choke]
               [] id = 1 -> [ok |-> TRUE, msg |-> Unchoke]
               [] id = 2 -> [ok |-> TRUE, msg |-> Interested]
               [] id = 3 -> [ok |-> TRUE, msg |-> NotInterested]
               [] id = 4 ->
                    IF Len(payload) = 4 THEN [ok |-> TRUE, msg |-> Have(Field(0))]
                    ELSE [ok |-> FALSE]
               [] id = 5 -> [ok |-> TRUE, msg |-> Bitfield(ToBytes(payload))]
               [] id = 6 ->
                    IF Len(payload) = 12
                    THEN [ok |-> TRUE, msg |-> Request(Field(0), Field(1), Field(2))]
                    ELSE [ok |-> FALSE]
               [] id = 7 ->
                    IF Len(payload) >= 8
                    THEN [ok |-> TRUE,
                          msg |-> PieceMessage(Field(0), Field(1),
                                     ToBytes(SubSeq(payload, 9, Len(payload))))]
                    ELSE [ok |-> FALSE]
               [] id = 8 ->
                    IF Len(payload) = 12
                    THEN [ok |-> TRUE, msg |-> Cancel(Field(0), Field(1), Field(2))]
                    ELSE [ok |-> FALSE]
               [] OTHER -> [ok |-> FALSE]

\* AsBytes for Extension.
Extension_as_bytes(m) ==
    LET Dict(msg_type) == (KeyMsgType :> BInt(msg_type)) @@ (KeyPiece :> BInt(m.piece))
        dict_bytes ==
            CASE m.type = "Handshake" -> serialize(BDict(m.dict))
              [] m.type = "RequestMetadata" -> serialize(BDict(Dict(0)))
              [] m.type = "Metadata" ->
                    serialize(BDict(Dict(1) @@ (KeyTotalSize :> BInt(BytesLen(m.data)))))
                        \o Expand(m.data)
              [] m.type = "Rejected" -> serialize(BDict(Dict(2)))
        ext_id == IF m.type = "Handshake" THEN MESSAGE_ID_EXTENSION_HANDSHAKE ELSE m.ext_id
    IN  to_be_bytes(Len(dict_bytes) + 2) \o <<MESSAGE_ID_EXTENSION, ext_id>> \o dict_bytes

\* TryFrom<&[u8]> for Extension.
Extension_try_from(bytes) ==
    IF Len(bytes) < 2 \/ bytes[1] # MESSAGE_ID_EXTENSION THEN [ok |-> FALSE]
    ELSE LET ext_id == bytes[2]
             d == deserialize_any(SubSeq(bytes, 3, Len(bytes)))
             IsInt(key) == key \in DOMAIN d.v.v /\ d.v.v[key].t = "Int"
         IN  IF ~d.ok \/ d.v.t # "Dict" THEN [ok |-> FALSE]
             ELSE IF ext_id = MESSAGE_ID_EXTENSION_HANDSHAKE
             THEN [ok |-> TRUE, msg |-> Handshake(d.v.v)]
             ELSE IF KeyMsgType \notin DOMAIN d.v.v \/ ~IsInt(KeyPiece) THEN [ok |-> FALSE]
             ELSE LET piece == d.v.v[KeyPiece].v
                      msg_type == d.v.v[KeyMsgType]
                  IN  CASE msg_type = BInt(0) ->
                              [ok |-> TRUE, msg |-> RequestMetadata(ext_id, piece)]
                        [] msg_type = BInt(1) ->
                              IF IsInt(KeyTotalSize)
                                 /\ d.v.v[KeyTotalSize].v \in 0..Len(d.rest)
                              THEN [ok |-> TRUE,
                                    msg |-> Metadata(ext_id, piece,
                                               ToBytes(SubSeq(d.rest, 1, d.v.v[KeyTotalSize].v)))]
                              ELSE [ok |-> FALSE]
                        [] msg_type = BInt(2) ->
                              [ok |-> TRUE, msg |-> Rejected(ext_id, piece)]
                        [] OTHER -> [ok |-> FALSE]

\* as_bytes of a message of either type.
as_bytes(m) ==
    IF m.type \in {"Handshake", "RequestMetadata", "Metadata", "Rejected"}
    THEN Extension_as_bytes(m)
    ELSE PeerMessage_as_bytes(m)

\* The message of a payload: the first byte tells the type to decode.
Message_try_from(bytes) ==
    IF bytes # <<>> /\ is_extension_message(bytes[1]) THEN Extension_try_from(bytes)
    ELSE IF bytes # <<>> /\ is_peer_message(bytes[1]) THEN PeerMessage_try_from(bytes)
    ELSE [ok |-> FALSE]

----------------------------------------------------------------------------
(* CodecSpec: a message with valid fields is encoded by as_bytes, and the   *)
(* payload of the frame (what follows the 4-byte length) is decoded.        *)
(* ext_id 0 is the id of the extension handshake, so the ut_metadata        *)
(* messages carry an ext_id of 1..255.                                      *)

MaxField == 1

\* Values of the u32 fields: small ones, and ones that need every byte.
U32Values == (0..MaxField) \cup {255, 256, 32768, 16909060}

ExtIds == {1, 255}

ByteVectors == {<<>>, Rep(0, 2), ToBytes(<<101, 49>>), ToBytes(<<0, 255, 0>>)}

\* The key "m" -> {"ut_metadata": id}, as extension::handshake() builds it,
\* the empty dictionary, and one with every type of value.
HandshakeDicts ==
    LET m == <<109>>
        ut_metadata == <<117, 116, 95, 109, 101, 116, 97, 100, 97, 116, 97>>
        v == <<118>>
        p == <<112>>
        yy == <<121, 121>>
    IN  {<<>>}
        \cup {(m :> BDict(ut_metadata :> BInt(id))) : id \in ExtIds}
        \cup {(yy :> BList(<<BInt(-10), BStr(ToBytes(<<58, 101>>)), BList(<<>>)>>))
                @@ (m :> BDict(<<>>)) @@ (v :> BStr(<<>>)) @@ (p :> BInt(6881))}

Messages ==
    {Choke, Unchoke, Interested, NotInterested}
    \cup {Have(i) : i \in U32Values}
    \cup {Bitfield(b) : b \in ByteVectors}
    \cup {Request(i, b, l) : i \in 0..MaxField, b \in U32Values, l \in {0, BLOCK_SIZE}}
    \cup {PieceMessage(i, b, block) : i \in 0..MaxField, b \in {0, BLOCK_SIZE}, block \in ByteVectors}
    \cup {Cancel(i, b, l) : i \in 0..MaxField, b \in {0, BLOCK_SIZE}, l \in {BLOCK_SIZE}}
    \cup {Handshake(d) : d \in HandshakeDicts}
    \cup {RequestMetadata(e, p) : e \in ExtIds, p \in U32Values}
    \cup {Metadata(e, p, data) : e \in ExtIds, p \in 0..MaxField, data \in ByteVectors}
    \cup {Rejected(e, p) : e \in ExtIds, p \in 0..MaxField}

CodecInit ==
    /\ \E m \in Messages : codec = [pc |-> "message", msg |-> m]
    /\ StreamIdle
    /\ SetupIdle
    /\ ShakeIdle
    /\ MagnetIdle
    /\ MetaIdle
    /\ LocksIdle
    /\ SessionIdle
    /\ PipelineIdle
    /\ AttemptIdle
    /\ ThrottleIdle
    /\ PieceIdle
    /\ PoolIdle
    /\ BrokerIdle
    /\ DownloadIdle

\* as_bytes
Encode ==
    /\ codec.pc = "message"
    /\ codec' = [pc |-> "frame", msg |-> codec.msg, frame |-> as_bytes(codec.msg)]
    /\ UNCHANGED <<stream, setup, shake, magnet, meta, locks, session, pipeline, attempt, throttleVars, pieceVars, poolVars, brokerVars, downloadVars>>

\* The 4 bytes of the length are read, then the payload is decoded.
Decode ==
    /\ codec.pc = "frame"
    /\ codec' = [pc |-> "decoded", msg |-> codec.msg, frame |-> codec.frame,
                 length |-> u32_from_bytes(codec.frame),
                 result |-> Message_try_from(SubSeq(codec.frame, 5, Len(codec.frame)))]
    /\ UNCHANGED <<stream, setup, shake, magnet, meta, locks, session, pipeline, attempt, throttleVars, pieceVars, poolVars, brokerVars, downloadVars>>

CodecNext ==
    \/ Encode
    \/ Decode

CodecSpec == CodecInit /\ [][CodecNext]_vars

----------------------------------------------------------------------------
(* peers/message.rs, peers/peer.rs: MessageBuf and read_message.            *)

MessageBuf_new == <<>>

\* io::Write for MessageBuf
write_all(buf, bytes) == buf \o bytes

\* build_if_ready: None until the length and that many bytes are buffered,
\* then the message of buf[4..4 + length].
build_if_ready(buf) ==
    IF Len(buf) < 4 THEN [ready |-> FALSE]
    ELSE LET length == u32_from_bytes(buf)
         IN  IF Len(buf) < length + 4 THEN [ready |-> FALSE]
             ELSE [ready |-> TRUE, result |-> PeerMessage_try_from(SubSeq(buf, 5, 4 + length))]

\* The size of temp_buf.
TEMP_BUF_SIZE == 4096

----------------------------------------------------------------------------
(* ReaderSpec: a peer has written the frames of some messages, one after    *)
(* the other, and closed; read_message is called again and again.  Each     *)
(* stream.read returns any positive number of the bytes that have arrived,  *)
(* at most TEMP_BUF_SIZE: the chunks split the stream anywhere.             *)

MaxFrames == 2

StreamMessages == {Choke, Have(7), Request(1, BLOCK_SIZE, 7232)}

RECURSIVE Frames(_)
Frames(msgs) ==
    IF msgs = <<>> THEN <<>> ELSE PeerMessage_as_bytes(Head(msgs)) \o Frames(Tail(msgs))

ReaderInit ==
    /\ \E n \in 1..MaxFrames : \E msgs \in [1..n -> StreamMessages] :
          stream = [pc |-> "idle", sent |-> msgs, unread |-> Frames(msgs),
                    buf |-> MessageBuf_new, returned |-> <<>>]
    /\ CodecIdle
    /\ SetupIdle
    /\ ShakeIdle
    /\ MagnetIdle
    /\ MetaIdle
    /\ LocksIdle
    /\ SessionIdle
    /\ PipelineIdle
    /\ AttemptIdle
    /\ ThrottleIdle
    /\ PieceIdle
    /\ PoolIdle
    /\ BrokerIdle
    /\ DownloadIdle

\* read_message is called: a new MessageBuf.
ReadMessage ==
    /\ stream.pc = "idle"
    /\ Len(stream.returned) < Len(stream.sent)
    /\ stream' = [stream EXCEPT !.pc = "read", !.buf = MessageBuf_new]
    /\ UNCHANGED <<codec, setup, shake, magnet, meta, locks, session, pipeline, attempt, throttleVars, pieceVars, poolVars, brokerVars, downloadVars>>

\* One turn of the loop with n > 0 bytes read: they are written to buf, and
\* the call returns if a message is ready; buf is dropped with the call.
StreamRead ==
    /\ stream.pc = "read"
    /\ \E n \in 1..Min(Len(stream.unread), TEMP_BUF_SIZE) :
          LET buf == write_all(stream.buf, SubSeq(stream.unread, 1, n))
              built == build_if_ready(buf)
          IN  stream' = [stream EXCEPT
                  !.unread = SubSeq(@, n + 1, Len(@)),
                  !.buf = buf,
                  !.pc = IF built.ready THEN "idle" ELSE "read",
                  !.returned = IF built.ready THEN Append(@, built.result) ELSE @]
    /\ UNCHANGED <<codec, setup, shake, magnet, meta, locks, session, pipeline, attempt, throttleVars, pieceVars, poolVars, brokerVars, downloadVars>>

\* One turn of the loop at the end of the stream: stream.read returns 0 and
\* the call fails.
StreamReadEof ==
    /\ stream.pc = "read"
    /\ stream.unread = <<>>
    /\ stream' = [stream EXCEPT !.pc = "idle", !.returned = Append(@, [ok |-> FALSE])]
    /\ UNCHANGED <<codec, setup, shake, magnet, meta, locks, session, pipeline, attempt, throttleVars, pieceVars, poolVars, brokerVars, downloadVars>>

ReaderNext ==
    \/ ReadMessage
    \/ StreamRead
    \/ StreamReadEof

ReaderSpec == ReaderInit /\ [][ReaderNext]_vars

----------------------------------------------------------------------------
(* SetupSpec: cmd/utils.rs connect, then broker_channels over the streams   *)
(* connect returned.  Each peer of the tracker's response is of one kind:   *)
(* it fails the handshake ("refuses"), or completes it and never sends the  *)
(* Bitfield and Unchoke that ready() waits for ("stalls": the connection    *)
(* ends), or completes both ("serves").                                     *)

MaxSetupPeers == 3

PeerKinds == {"refuses", "stalls", "serves"}

SetupInit ==
    /\ \E n \in 0..MaxSetupPeers : \E kinds \in [1..n -> PeerKinds] :
          setup = [pc |-> "connect", peers |-> kinds, next |-> 1,
                   streams |-> <<>>, brokers |-> <<>>]
    /\ CodecIdle
    /\ StreamIdle
    /\ ShakeIdle
    /\ MagnetIdle
    /\ MetaIdle
    /\ LocksIdle
    /\ SessionIdle
    /\ PipelineIdle
    /\ AttemptIdle
    /\ ThrottleIdle
    /\ PieceIdle
    /\ PoolIdle
    /\ BrokerIdle
    /\ DownloadIdle

\* connect, one turn of the loop: the stream of a peer whose connect is Ok
\* is pushed, a peer whose connect is Err is skipped.
ConnectPeer ==
    /\ setup.pc = "connect"
    /\ setup.next <= Len(setup.peers)
    /\ setup' = [setup EXCEPT
            !.next = @ + 1,
            !.streams = IF setup.peers[setup.next] = "refuses" THEN @
                        ELSE Append(@, setup.next)]
    /\ UNCHANGED <<codec, stream, shake, magnet, meta,
                   locks, session, pipeline, attempt, throttleVars, pieceVars, poolVars, brokerVars, downloadVars>>

\* connect returns Ok(streams); broker_channels is called with them.
ConnectReturn ==
    /\ setup.pc = "connect"
    /\ setup.next > Len(setup.peers)
    /\ setup' = [setup EXCEPT !.pc = "broker_channels", !.next = 1]
    /\ UNCHANGED <<codec, stream, shake, magnet, meta,
                   locks, session, pipeline, attempt, throttleVars, pieceVars, poolVars, brokerVars, downloadVars>>

\* broker_channels, one turn of the first loop: stream.ready().await? and
\* broker::create.  The Err of ready() is returned by broker_channels; the
\* brokers made so far are dropped.
ReadyPeer ==
    /\ setup.pc = "broker_channels"
    /\ setup.next <= Len(setup.streams)
    /\ LET p == setup.streams[setup.next]
       IN  setup' = IF setup.peers[p] = "serves"
                    THEN [setup EXCEPT !.next = @ + 1, !.brokers = Append(@, p)]
                    ELSE [setup EXCEPT !.pc = "Err", !.brokers = <<>>]
    /\ UNCHANGED <<codec, stream, shake, magnet, meta,
                   locks, session, pipeline, attempt, throttleVars, pieceVars, poolVars, brokerVars, downloadVars>>

\* broker_channels, after the first loop: the pool of the brokers and the
\* merged channel are returned.
BrokerChannelsReturn ==
    /\ setup.pc = "broker_channels"
    /\ setup.next > Len(setup.streams)
    /\ setup' = [setup EXCEPT !.pc = "Ok"]
    /\ UNCHANGED <<codec, stream, shake, magnet, meta,
                   locks, session, pipeline, attempt, throttleVars, pieceVars, poolVars, brokerVars, downloadVars>>

SetupNext ==
    \/ ConnectPeer
    \/ ConnectReturn
    \/ ReadyPeer
    \/ BrokerChannelsReturn

SetupSpec == SetupInit /\ [][SetupNext]_vars

----------------------------------------------------------------------------
(* net/peer.rs: the Handshake and Peer::connect.  A Bytes20 is the sequence *)
(* of its 20 bytes.                                                         *)

HANDSHAKE_SIZE == 68

Bytes20(b) == [i \in 1..20 |-> b]

\* b"BitTorrent protocol"
ProtocolString ==
    <<66, 105, 116, 84, 111, 114, 114, 101, 110, 116, 32, 112, 114, 111, 116, 111, 99, 111, 108>>

\* Handshake::new
Handshake_new(info_hash, peer_id) ==
    <<19>> \o ProtocolString \o <<0, 0, 0, 0, 0, 16, 0, 0>> \o info_hash \o peer_id

\* Handshake::peer_id
Handshake_peer_id(h) == SubSeq(h, 49, 68)

\* The info-hash of a handshake: bytes 28..48.
Handshake_info_hash(h) == SubSeq(h, 29, 48)

\* PeerStream::new
PeerStream_new(peer_id) == [peer_id |-> peer_id]

----------------------------------------------------------------------------
(* HandshakeSpec: Peer::connect to a peer that replies with a handshake of  *)
(* any info-hash and peer id, with the protocol length byte right or wrong, *)
(* in full or cut short by the end of the connection.                       *)

MaxHash == 3

Hashes == {Bytes20(h) : h \in 1..MaxHash}

PeerIds == {Bytes20(200), Bytes20(201)}

\* b"-CT0001-012345678901", the peer id of the client
ClientPeerId ==
    <<45, 67, 84, 48, 48, 48, 49, 45, 48, 49, 50, 51, 52, 53, 54, 55, 56, 57, 48, 49>>

HandshakeInit ==
    /\ \E info_hash \in Hashes :
          shake = [pc |-> "connect", info_hash |-> info_hash, written |-> <<>>,
                   reply |-> <<>>]
    /\ CodecIdle
    /\ StreamIdle
    /\ SetupIdle
    /\ MagnetIdle
    /\ MetaIdle
    /\ LocksIdle
    /\ SessionIdle
    /\ PipelineIdle
    /\ AttemptIdle
    /\ ThrottleIdle
    /\ PieceIdle
    /\ PoolIdle
    /\ BrokerIdle
    /\ DownloadIdle

\* TcpStream::connect; stream.write_all(msg.as_bytes())
WriteHandshake ==
    /\ shake.pc = "connect"
    /\ shake' = [shake EXCEPT !.pc = "written",
                              !.written = Handshake_new(shake.info_hash, ClientPeerId)]
    /\ UNCHANGED <<codec, stream, setup, magnet, meta,
                   locks, session, pipeline, attempt, throttleVars, pieceVars, poolVars, brokerVars, downloadVars>>

\* The peer writes its reply, or a part of it, and goes on or closes.
PeerReply ==
    /\ shake.pc = "written"
    /\ \E info_hash \in Hashes, peer_id \in PeerIds, pstrlen \in {19, 0},
          n \in {0, HANDSHAKE_SIZE - 1, HANDSHAKE_SIZE} :
          shake' = [shake EXCEPT
              !.pc = "replied",
              !.reply = SubSeq(<<pstrlen>> \o Tail(Handshake_new(info_hash, peer_id)), 1, n)]
    /\ UNCHANGED <<codec, stream, setup, magnet, meta,
                   locks, session, pipeline, attempt, throttleVars, pieceVars, poolVars, brokerVars, downloadVars>>

\* stream.read_exact(resp.as_mut()) and the rest of connect: an Err when
\* the connection ends before HANDSHAKE_SIZE bytes, else the PeerStream.
ReadHandshake ==
    /\ shake.pc = "replied"
    /\ shake' = IF Len(shake.reply) < HANDSHAKE_SIZE
                THEN [shake EXCEPT !.pc = "Err"]
                ELSE [pc |-> "Ok", info_hash |-> shake.info_hash, written |-> shake.written,
                      reply |-> shake.reply,
                      session |-> PeerStream_new(Handshake_peer_id(shake.reply))]
    /\ UNCHANGED <<codec, stream, setup, magnet, meta,
                   locks, session, pipeline, attempt, throttleVars, pieceVars, poolVars, brokerVars, downloadVars>>

HandshakeNext ==
    \/ WriteHandshake
    \/ PeerReply
    \/ ReadHandshake

HandshakeSpec == HandshakeInit /\ [][HandshakeNext]_vars

----------------------------------------------------------------------------
(* cmd/utils.rs get_ext_info: the metadata of a magnet link, asked of the   *)
(* connected peers in turn.                                                 *)

KeyLength == <<108, 101, 110, 103, 116, 104>>

KeyName == <<110, 97, 109, 101>>

KeyPieceLength == <<112, 105, 101, 99, 101, 32, 108, 101, 110, 103, 116, 104>>

KeyPieces == <<112, 105, 101, 99, 101, 115>>

KeyM == <<109>>

KeyUtMetadata == <<117, 116, 95, 109, 101, 116, 97, 100, 97, 116, 97>>

\* Extension::metadata_ext_id
metadata_ext_id(ext) ==
    IF ext.type = "Handshake"
    THEN IF /\ KeyM \in DOMAIN ext.dict
            /\ ext.dict[KeyM].t = "Dict"
            /\ KeyUtMetadata \in DOMAIN ext.dict[KeyM].v
            /\ ext.dict[KeyM].v[KeyUtMetadata].t = "Int"
         THEN [some |-> TRUE, v |-> ext.dict[KeyM].v[KeyUtMetadata].v % 256]
         ELSE [some |-> FALSE]
    ELSE [some |-> TRUE, v |-> ext.ext_id]

\* Info::deserialize(&mut Deserializer::new(data)): the four fields of
\* Info, pieces in units of 20 bytes; other keys and the bytes after the
\* dictionary are not looked at.
Info_deserialize(data) ==
    LET d == deserialize_any(data)
        Has(key, t) == key \in DOMAIN d.v.v /\ d.v.v[key].t = t
    IN  IF ~d.ok \/ d.v.t # "Dict" THEN [ok |-> FALSE]
        ELSE IF /\ Has(KeyPieceLength, "Int") /\ Has(KeyLength, "Int")
                /\ Has(KeyName, "Str") /\ Has(KeyPieces, "Str")
                /\ BytesLen(d.v.v[KeyPieces].v) % 20 = 0
        THEN [ok |-> TRUE,
              v |-> [piece_length |-> d.v.v[KeyPieceLength].v,
                     pieces |-> d.v.v[KeyPieces].v,
                     name |-> d.v.v[KeyName].v,
                     length |-> d.v.v[KeyLength].v]]
        ELSE [ok |-> FALSE]

----------------------------------------------------------------------------
(* MagnetSpec: get_ext_info over the streams of a magnet link whose         *)
(* info-hash is the SHA-1 of one of the info dictionaries; each peer        *)
(* answers the extension handshake and the metadata request as it likes.    *)

MaxMagnetPeers == 2

\* The bencoded info dictionary of the torrent with piece hash byte h.
InfoBytes(h) ==
    serialize(BDict((KeyLength :> BInt(3)) @@ (KeyName :> BStr(ToBytes(<<97>>)))
                    @@ (KeyPieceLength :> BInt(4)) @@ (KeyPieces :> BStr(Rep(h, 20)))))

InfoTags == {7, 8}

\* data.to_vec(): the Vec<u8> of the bytes of data.
to_vec(data) ==
    LET starts == {i \in 1..Len(data) : i = 1 \/ data[i] # data[i - 1]}
        start(k) == CHOOSE i \in starts : Cardinality({j \in starts : j < i}) = k - 1
        end(k) == IF k = Cardinality(starts) THEN Len(data) ELSE start(k + 1) - 1
    IN  [k \in 1..Cardinality(starts) |->
            [b |-> data[start(k)], n |-> end(k) - start(k) + 1]]

\* What a peer sends as the data of its Metadata message.
MetadataBlobs == {InfoBytes(h) : h \in InfoTags} \cup {<<105, 49, 101>>, <<100, 101>>}

\* The extension message a peer answers the handshake with, if any.
HandshakeReplies ==
    {Handshake(KeyM :> BDict(KeyUtMetadata :> BInt(id))) : id \in {1, 2}}
    \cup {Handshake(<<>>)}

\* The extension message a peer answers the request with, if any.
RequestReplies(ext_id) ==
    {Metadata(ext_id, 0, to_vec(data)) : data \in MetadataBlobs}
    \cup {Rejected(ext_id, 0), Handshake(<<>>)}

MagnetInit ==
    /\ \E h \in InfoTags, n \in 0..MaxMagnetPeers :
          magnet = [pc |-> "handshake", info_hash |-> sha1_hash(to_vec(InfoBytes(h))),
                    streams |-> n, next |-> 1, ext_id |-> 0, got |-> <<>>]
    /\ CodecIdle
    /\ StreamIdle
    /\ SetupIdle
    /\ ShakeIdle
    /\ MetaIdle
    /\ LocksIdle
    /\ SessionIdle
    /\ PipelineIdle
    /\ AttemptIdle
    /\ ThrottleIdle
    /\ PieceIdle
    /\ PoolIdle
    /\ BrokerIdle
    /\ DownloadIdle

\* stream.extension_handshake().await?.metadata_ext_id().ok_or(..)? for the
\* next stream: the connection closes, or an extension message arrives.
ExtensionHandshake ==
    /\ magnet.pc = "handshake"
    /\ magnet.next <= magnet.streams
    /\ \/ magnet' = [magnet EXCEPT !.pc = "Err"]
       \/ \E ext \in HandshakeReplies :
             LET id == metadata_ext_id(ext)
             IN  magnet' = IF id.some
                           THEN [magnet EXCEPT !.pc = "request", !.ext_id = id.v,
                                               !.got = Append(@, ext)]
                           ELSE [magnet EXCEPT !.pc = "Err", !.got = Append(@, ext)]
    /\ UNCHANGED <<codec, stream, setup, shake, meta,
                   locks, session, pipeline, attempt, throttleVars, pieceVars, poolVars, brokerVars, downloadVars>>

\* send_message(RequestMetadata { ext_id, piece: 0 }) and the match on
\* wait_extention().await?: the Info of a Metadata message, the next stream
\* after another extension message.
RequestMetadataAndWait ==
    /\ magnet.pc = "request"
    /\ \/ magnet' = [magnet EXCEPT !.pc = "Err"]
       \/ \E ext \in RequestReplies(magnet.ext_id) :
             IF ext.type = "Metadata"
             THEN LET info == Info_deserialize(Expand(ext.data))
                  IN  magnet' = IF info.ok
                                THEN [pc |-> "Ok", info_hash |-> magnet.info_hash,
                                      streams |-> magnet.streams, next |-> magnet.next,
                                      ext_id |-> magnet.ext_id,
                                      got |-> Append(magnet.got, ext),
                                      data |-> ext.data, info |-> info.v]
                                ELSE [magnet EXCEPT !.pc = "Err", !.got = Append(@, ext)]
             ELSE magnet' = [magnet EXCEPT !.pc = "handshake", !.next = @ + 1,
                                           !.got = Append(@, ext)]
    /\ UNCHANGED <<codec, stream, setup, shake, meta,
                   locks, session, pipeline, attempt, throttleVars, pieceVars, poolVars, brokerVars, downloadVars>>

\* Err("Failed to retrieve metadata from any peer") after the last stream.
NoMetadata ==
    /\ magnet.pc = "handshake"
    /\ magnet.next > magnet.streams
    /\ magnet' = [magnet EXCEPT !.pc = "Err"]
    /\ UNCHANGED <<codec, stream, setup, shake, meta,
                   locks, session, pipeline, attempt, throttleVars, pieceVars, poolVars, brokerVars, downloadVars>>

MagnetNext ==
    \/ ExtensionHandshake
    \/ RequestMetadataAndWait
    \/ NoMetadata

MagnetSpec == MagnetInit /\ [][MagnetNext]_vars

----------------------------------------------------------------------------
(* main.rs get_piece_length: the length of the piece to ask a peer for.     *)

\* get_piece_length(index, meta), for the Meta of a torrent file
get_piece_length(index, m) ==
    LET last_piece_length == m.length % m.piece_length
        is_last_piece == index = m.num_pieces - 1
    IN  IF is_last_piece THEN last_piece_length ELSE m.piece_length

----------------------------------------------------------------------------
(* MetaSpec: get_piece_length for every piece of a torrent: small torrents  *)
(* of every shape, and the sample torrent of 40000 bytes in pieces of 32768.*)

MaxPieceLength == 4

MaxLength == 9

\* A torrent file: `pieces` holds one hash for every piece of the content.
TorrentFiles ==
    {[piece_length |-> p, length |-> l, num_pieces |-> (l + p - 1) \div p] :
        p \in 1..MaxPieceLength, l \in 1..MaxLength}
    \cup {[piece_length |-> 32768, length |-> 40000, num_pieces |-> 2],
          [piece_length |-> 32768, length |-> 65536, num_pieces |-> 2]}

MetaInit ==
    /\ \E t \in TorrentFiles : meta = [pc |-> "torrent", torrent |-> t]
    /\ CodecIdle
    /\ StreamIdle
    /\ SetupIdle
    /\ ShakeIdle
    /\ MagnetIdle
    /\ LocksIdle
    /\ SessionIdle
    /\ PipelineIdle
    /\ AttemptIdle
    /\ ThrottleIdle
    /\ PieceIdle
    /\ PoolIdle
    /\ BrokerIdle
    /\ DownloadIdle

\* let length = get_piece_length(index, &meta)?
GetPieceLength ==
    /\ meta.pc = "torrent"
    /\ \E index \in 0..(meta.torrent.num_pieces - 1) :
          meta' = [pc |-> "length", torrent |-> meta.torrent, index |-> index,
                   length |-> get_piece_length(index, meta.torrent)]
    /\ UNCHANGED <<codec, stream, setup, shake, magnet,
                   locks, session, pipeline, attempt, throttleVars, pieceVars, poolVars, brokerVars, downloadVars>>

MetaNext == GetPieceLength

MetaSpec == MetaInit /\ [][MetaNext]_vars

----------------------------------------------------------------------------
(* LockSpec: the three mutexes of a Broker (queue, pieces, writer) and the  *)
(* two tasks that lock them: the reader task spawned by Broker::new and the *)
(* holder's request_piece call.  A guard bound with `let` is held to the    *)
(* end of its block; the guard of `x.lock().await.f()` is held for the      *)
(* statement.  The queue is kept as the numbers of its in-flight keys and   *)
(* waiting items, which decide whether done and queue call the sender.      *)

MaxLockFrames == 3

MaxLockCalls == 2

\* Blocks of a piece requested by one call.
LockBlocks == 1..3

Mutexes == {"queue", "pieces", "writer"}

lockFrame ==
    <<codec, stream, setup, shake, magnet, meta, session, pipeline, attempt,
      throttleVars, pieceVars, poolVars, brokerVars, downloadVars>>

LockInit ==
    /\ locks = [pc |-> "broker",
                owner |-> [m \in Mutexes |-> "free"],
                reader |-> [pc |-> "next", frame |-> "none", ret |-> "none"],
                holder |-> [pc |-> "idle", blocks |-> 0, ret |-> "none"],
                processings |-> 0, waitings |-> 0, frames |-> 0, calls |-> 0]
    /\ CodecIdle
    /\ StreamIdle
    /\ SetupIdle
    /\ ShakeIdle
    /\ MagnetIdle
    /\ MetaIdle
    /\ SessionIdle
    /\ PipelineIdle
    /\ AttemptIdle
    /\ ThrottleIdle
    /\ PieceIdle
    /\ PoolIdle
    /\ BrokerIdle
    /\ DownloadIdle

\* reader.next().await yields a frame: a Piece or another message.
ReaderNextFrame ==
    /\ locks.reader.pc = "next"
    /\ locks.frames < MaxLockFrames
    /\ \E frame \in {"Piece", "Choke"} :
          locks' = [locks EXCEPT !.reader = [pc |-> "lock_queue", frame |-> frame,
                                            ret |-> "none"],
                                 !.frames = @ + 1]
    /\ UNCHANGED lockFrame

\* let mut queue = queue_pointer.lock().await
ReaderLockQueue ==
    /\ locks.reader.pc = "lock_queue"
    /\ locks.owner["queue"] = "free"
    /\ locks' = [locks EXCEPT !.owner["queue"] = "reader", !.reader.pc = "done"]
    /\ UNCHANGED lockFrame

\* queue.done(msg.key_hash()).await, up to the call of the sender if there
\* is one: the key of a Piece is in flight if a request is; the key of
\* another frame is not.
ReaderDone ==
    /\ locks.reader.pc = "done"
    /\ LET after == IF locks.reader.frame = "Piece" THEN "lock_pieces" ELSE "end"
       IN  IF locks.reader.frame = "Piece" /\ locks.processings > 0
           THEN IF locks.waitings > 0
                THEN locks' = [locks EXCEPT !.waitings = @ - 1,
                                            !.reader.pc = "send_message",
                                            !.reader.ret = after]
                ELSE locks' = [locks EXCEPT !.processings = @ - 1, !.reader.pc = after]
           ELSE locks' = [locks EXCEPT !.waitings = 0, !.reader.pc = after]
    /\ UNCHANGED lockFrame

\* send_message: let mut writer = writer.lock().await
SendLockWriter(t) ==
    /\ locks[t].pc = "send_message"
    /\ locks.owner["writer"] = "free"
    /\ locks' = [locks EXCEPT !.owner["writer"] = t, ![t].pc = "write_all"]
    /\ UNCHANGED lockFrame

\* writer.write_all(&bytes).await and the end of the sender's block
SendWriteAll(t) ==
    /\ locks[t].pc = "write_all"
    /\ locks' = [locks EXCEPT !.owner["writer"] = "free", ![t].pc = locks[t].ret]
    /\ UNCHANGED lockFrame

\* let mut pieces = pieces_pointer.lock().await
ReaderLockPieces ==
    /\ locks.reader.pc = "lock_pieces"
    /\ locks.owner["pieces"] = "free"
    /\ locks' = [locks EXCEPT !.owner["pieces"] = "reader", !.reader.pc = "insert_block"]
    /\ UNCHANGED lockFrame

\* pieces.insert_block(..).await and the end of the `if let` block, where
\* the guard `pieces` is dropped
ReaderInsertBlock ==
    /\ locks.reader.pc = "insert_block"
    /\ locks' = [locks EXCEPT !.owner["pieces"] = "free", !.reader.pc = "end"]
    /\ UNCHANGED lockFrame

\* The end of the loop body, where the guard `queue` is dropped.
ReaderEndOfIteration ==
    /\ locks.reader.pc = "end"
    /\ locks' = [locks EXCEPT !.owner["queue"] = "free", !.reader.pc = "next"]
    /\ UNCHANGED lockFrame

\* request_piece is called for a piece of some blocks.
HolderRequestPiece ==
    /\ locks.holder.pc = "idle"
    /\ locks.calls < MaxLockCalls
    /\ \E n \in LockBlocks :
          locks' = [locks EXCEPT !.holder = [pc |-> "new_piece", blocks |-> n, ret |-> "none"],
                                 !.calls = @ + 1]
    /\ UNCHANGED lockFrame

\* new_piece: self.pieces.lock().await.new_block(index, length)
HolderNewPiece ==
    /\ locks.holder.pc = "new_piece"
    /\ locks.owner["pieces"] = "free"
    /\ locks' = [locks EXCEPT !.holder.pc = "lock_queue"]
    /\ UNCHANGED lockFrame

\* Broker::queue: self.queue.lock().await
HolderLockQueue ==
    /\ locks.holder.pc = "lock_queue"
    /\ locks.owner["queue"] = "free"
    /\ locks' = [locks EXCEPT !.owner["queue"] = "holder", !.holder.pc = "queue"]
    /\ UNCHANGED lockFrame

\* .queue(msg).await, up to the call of the sender if the queue is not full
HolderQueue ==
    /\ locks.holder.pc = "queue"
    /\ IF locks.processings >= THROTTLE_CAPACITY
       THEN locks' = [locks EXCEPT !.waitings = @ + 1, !.holder.pc = "end"]
       ELSE locks' = [locks EXCEPT !.processings = @ + 1, !.holder.pc = "send_message",
                                   !.holder.ret = "end"]
    /\ UNCHANGED lockFrame

\* The end of the statement of Broker::queue, where the guard is dropped,
\* and the next iteration of send_piece_request.
HolderEndOfQueue ==
    /\ locks.holder.pc = "end"
    /\ locks' = [locks EXCEPT !.owner["queue"] = "free",
                              !.holder.blocks = @ - 1,
                              !.holder.pc = IF locks.holder.blocks = 1 THEN "idle"
                                            ELSE "lock_queue"]
    /\ UNCHANGED lockFrame

LockNext ==
    \/ ReaderNextFrame
    \/ ReaderLockQueue
    \/ ReaderDone
    \/ ReaderLockPieces
    \/ ReaderInsertBlock
    \/ ReaderEndOfIteration
    \/ HolderRequestPiece
    \/ HolderNewPiece
    \/ HolderLockQueue
    \/ HolderQueue
    \/ HolderEndOfQueue
    \/ \E t \in {"reader", "holder"} : SendLockWriter(t)
    \/ \E t \in {"reader", "holder"} : SendWriteAll(t)

LockSpec == LockInit /\ [][LockNext]_vars

----------------------------------------------------------------------------
(* CollectSpec: the receiving loop of run in cmd/download.rs, with every    *)
(* index requested, fed by a merged channel on which the pieces of the      *)
(* torrent arrive in any order and any number of times.                     *)

MaxArrivals == 4

CollectInit ==
    /\ \E info \in Torrents :
          run = [state |-> "running", info |-> info, index |-> num_pieces(info),
                 pieces |-> <<>>, received |-> <<>>]
    /\ merged = channel
    /\ fwd = <<>>
    /\ rotation = <<>>
    /\ output = [written |-> FALSE, file_data |-> <<>>]
    /\ ThrottleIdle
    /\ PieceIdle
    /\ PoolIdle
    /\ BrokerIdle
    /\ WireIdle

\* A forwarding task sends a piece of some index on to the merged channel.
Arrive ==
    /\ merged.rx_alive
    /\ Len(run.received) + Len(merged.buf) < MaxArrivals
    /\ \E index \in 0..(num_pieces(run.info) - 1) :
          merged' = send(merged, [index |-> index,
                                  data |-> Content(index, piece_length(run.info, index))])
    /\ UNCHANGED <<fwd, rotation, run, output,
                   throttleVars, pieceVars, poolVars, brokerVars, wireVars>>

CollectNext == Arrive \/ RunRecv

CollectSpec == CollectInit /\ [][CollectNext]_vars

----------------------------------------------------------------------------
(* Claims about the ThrottleQueue (ThrottleSpec).                           *)

InFlight == Cardinality(tq.processings)

\* The step is a call of queue.
IsQueueStep == Len(tqHist'.queued) = Len(tqHist.queued) + 1

DistinctKeys ==
    \A i, j \in DOMAIN tqHist.queued :
        i # j => key_hash(tqHist.queued[i]) # key_hash(tqHist.queued[j])

SentInEnqueueOrder ==
    \A i, j \in DOMAIN tq.sent : i < j => tq.sent[i].seq < tq.sent[j].seq

\* C1: the number of in-flight keys (processings) never exceeds the capacity,
\* after any sequence of queue and done calls.
C1_ThrottleBound == InFlight <= tq.capacity

\* The queue is full, an item waits and a done call has been made.
C1_Witness ==
    /\ InFlight = tq.capacity
    /\ tq.waitings # <<>>
    /\ tqHist.dones > 0

\* C2: done(hash) for a hash in flight removes it and, if an item waits,
\* dispatches exactly one item, the head of waitings, marking it in flight;
\* consequently the items are handed to the sender in exactly the order in
\* which they were enqueued.  (The formula states the consequence: sent is
\* in the order of enqueueing, in every reachable state.)
C2_SentInEnqueueOrder == SentInEnqueueOrder

\* queue(item) sends item and marks its key iff fewer than capacity keys are
\* in flight when it is called; otherwise item goes to the tail of waitings.
QueueDispatchesIffNotFull ==
    IsQueueStep =>
        LET item == tqHist'.last.item
        IN  IF InFlight < tq.capacity
            THEN /\ tq'.sent = Append(tq.sent, item)
                 /\ key_hash(item) \in tq'.processings
                 /\ tq'.waitings = tq.waitings
            ELSE /\ tq'.waitings = Append(tq.waitings, item)
                 /\ tq'.sent = tq.sent
                 /\ tq'.processings = tq.processings

\* C3: queue(item) hands item to the sender and marks its key in flight iff
\* fewer than capacity keys are in flight at the call, and otherwise appends
\* it to waitings unsent; N distinct items enqueued into an empty queue
\* dispatch exactly the first min(N, capacity).
C3_EnqueueDispatch ==
    /\ [][QueueDispatchesIffNotFull]_vars
    /\ []((tqHist.dones = 0 /\ DistinctKeys) =>
            tq.sent = SubSeq(tqHist.queued, 1, Min(Len(tqHist.queued), tq.capacity)))

\* More distinct items than the capacity were enqueued and the last one waits.
C3_Witness ==
    /\ tqHist.last.op = "queue"
    /\ tqHist.dones = 0
    /\ DistinctKeys
    /\ Len(tq.sent) = tq.capacity
    /\ tq.waitings # <<>>

----------------------------------------------------------------------------
(* Claims about the PieceManager (PieceSpec).                               *)

\* The number of Pieces of index i sent on the outbound channel.
EmittedCount(i) ==
    Cardinality({k \in DOMAIN pm.sender.buf : pm.sender.buf[k].index = i})

\* The positions in the call history of the new_block / insert_block calls
\* for index i.
OpenCalls(i) ==
    {k \in DOMAIN pmHist.calls :
        pmHist.calls[k].op = "new_block" /\ pmHist.calls[k].index = i}

DeliverCalls(i) ==
    {k \in DOMAIN pmHist.calls :
        pmHist.calls[k].op = "insert_block" /\ pmHist.calls[k].index = i}

RECURSIVE DeliveredLen(_)
DeliveredLen(ks) ==
    IF ks = {} THEN 0
    ELSE LET k == CHOOSE x \in ks : TRUE
         IN  BytesLen(pmHist.calls[k].data) + DeliveredLen(ks \ {k})

\* One new_block(i, L) precedes every insert_block for i, at least one block
\* was delivered, and the delivered blocks' lengths sum to L.
OrderedDelivery(i) ==
    /\ Cardinality(OpenCalls(i)) = 1
    /\ DeliverCalls(i) # {}
    /\ \A o \in OpenCalls(i) :
        /\ \A k \in DeliverCalls(i) : o < k
        /\ DeliveredLen(DeliverCalls(i)) = pmHist.calls[o].length

\* Every delivered block of i lies within the piece as declared.
DeliveredInRange(i) ==
    \A o \in OpenCalls(i), k \in DeliverCalls(i) :
        pmHist.calls[k].begin + BytesLen(pmHist.calls[k].data) <= pmHist.calls[o].length

DeliveredOffsetsDistinct(i) ==
    \A j, k \in DeliverCalls(i) :
        j # k => pmHist.calls[j].begin # pmHist.calls[k].begin

\* C4: over the lifetime of a PieceManager at most one Piece is emitted for
\* each piece index, for any sequence of new_block and insert_block calls.
C4_AtMostOneCompletion == \A i \in Indexes : EmittedCount(i) <= 1

EmitsOnlyWhenComplete ==
    \A i \in Indexes :
        EmittedCount(i)' # EmittedCount(i) =>
            LET call == pmHist'.calls[Len(pmHist'.calls)]
            IN  /\ call.op = "insert_block" /\ call.index = i
                /\ i \in DOMAIN pm.blocks
                /\ LET held == Blocks_insert_block(pm.blocks[i], call.begin, call.data)
                   IN  Blocks_len(held) = pm.blocks[i].length
                /\ EmittedCount(i)' = EmittedCount(i) + 1

----------------------------------------------------------------------------
(* Claims about the Pool (PoolSpec, FairPoolSpec).                          *)

HeldBy(item) == {h \in DOMAIN handles : handles[h] = item}

QueuedAt(item) == {k \in DOMAIN pool.items : pool.items[k] = item}

ReturningAt(item) == {k \in DOMAIN returning : returning[k] = item}

AllHeld == \A item \in Range(PoolItems) : HeldBy(item) # {}

\* C6 as stated: every item is either held by exactly one live handle or in
\* the queue, never both and never neither.
C6_HeldOrQueued ==
    \A item \in Range(PoolItems) :
        \/ Cardinality(HeldBy(item)) = 1 /\ QueuedAt(item) = {}
        \/ HeldBy(item) = {} /\ Cardinality(QueuedAt(item)) = 1

\* C6, amended: every item is in exactly one of three places: held by
\* exactly one live handle, in the queue, or carried by the one return task
\* that the drop of its handle spawned and that has not pushed it yet.
C6_HeldQueuedOrReturning ==
    \A item \in Range(PoolItems) :
        Cardinality(HeldBy(item)) + Cardinality(QueuedAt(item))
            + Cardinality(ReturningAt(item)) = 1

\* One item is held, one is queued and one is with its return task.
C6_Witness ==
    \E a, b, c \in Range(PoolItems) :
        /\ HeldBy(a) # {}
        /\ QueuedAt(b) # {}
        /\ ReturningAt(c) # {}

\* A step that completes a get_item: a handle is created.
Acquires == \E h \in DOMAIN handles' : h \notin DOMAIN handles

\* C7: while every item is held by a live handle no get_item completes, and
\* get_item never returns an item that a live handle still holds.
C7_ExclusiveAcquisition ==
    /\ [][AllHeld => ~Acquires]_vars
    /\ [][\A h \in DOMAIN handles' :
            h \notin DOMAIN handles => HeldBy(handles'[h]) = {}]_vars
    /\ [](\A item \in Range(PoolItems) : Cardinality(HeldBy(item)) <= 1)

\* Every item is held, a get_item is pending and its last poll yielded.
C7_Witness ==
    /\ AllHeld
    /\ pending > 0
    /\ poolHist.events # <<>>
    /\ poolHist.events[Len(poolHist.events)].op = "yield"

\* A step by which get_item returns an Item / a return task pushes.
LastEvent == poolHist'.events[Len(poolHist'.events)]

IsEvent(op) == Len(poolHist'.events) = Len(poolHist.events) + 1 /\ LastEvent.op = op

GetReturnsHead ==
    IsEvent("get") =>
        /\ pool.items # <<>>
        /\ LastEvent.item = Head(pool.items)
        /\ pool'.items = Tail(pool.items)

ReturnAppendsToTail ==
    IsEvent("return") => pool'.items = Append(pool.items, LastEvent.item)

\* The items acquired so far, in order, and the items dropped before the
\* n-th acquisition.
Acquired == [k \in DOMAIN EventsOf("get") |-> EventsOf("get")[k].item]

RECURSIVE DroppedBefore(_, _)
DroppedBefore(events, n) ==
    IF events = <<>> \/ n = 0 THEN <<>>
    ELSE IF Head(events).op = "get" THEN DroppedBefore(Tail(events), n - 1)
    ELSE IF Head(events).op = "drop" /\ n >= 1
         THEN <<Head(events).item>> \o DroppedBefore(Tail(events), n)
    ELSE DroppedBefore(Tail(events), n)

\* With items [1, 2, 3]: three acquisitions yield 1, 2, 3, and after the
\* drop of the handle of 1 (and of no other) the next one yields 1.
TestPoolScenario ==
    /\ Len(Acquired) >= 3 => SubSeq(Acquired, 1, 3) = <<1, 2, 3>>
    /\ (Len(Acquired) >= 4 /\ DroppedBefore(poolHist.events, 4) = <<1>>) => Acquired[4] = 1

\* C8: the item of a dropped handle is eventually appended to the tail of
\* the queue; get_item returns the head of the queue; with items [1, 2, 3]
\* three acquisitions yield 1, 2, 3 and, after the handle of 1 is dropped,
\* the next acquisition yields 1.
C8_ReturnToTail ==
    /\ \A item \in Range(PoolItems) : (ReturningAt(item) # {}) ~> (QueuedAt(item) # {})
    /\ [][GetReturnsHead /\ ReturnAppendsToTail]_vars
    /\ []TestPoolScenario

\* 1, 2, 3 were acquired, the handle of 1 was dropped, and 1 was acquired
\* again.
C8_Witness ==
    /\ Acquired = <<1, 2, 3, 1>>
    /\ DroppedBefore(poolHist.events, 4) = <<1>>

----------------------------------------------------------------------------
(* Claims about the Broker (BrokerSpec).                                    *)

\* What the c-th request_piece call has done so far, in order, and the
\* Requests it has enqueued.
CallLog(c) ==
    LET OfCall(e) == e.call = c
    IN  SelectSeq(brokerHist.log, OfCall)

Enqueued(c) ==
    LET log == CallLog(c)
    IN  [k \in 1..(Len(log) - 1) |-> log[k + 1].msg]

\* The c-th call has returned.
Returned(c) == c < Len(brokerHist.calls) \/ calling.pc = "idle"

\* ceil(L / BLOCK_SIZE)
NumBlocks(L) == (L + BLOCK_SIZE - 1) \div BLOCK_SIZE

RECURSIVE SumLengths(_)
SumLengths(reqs) == IF reqs = <<>> THEN 0 ELSE Head(reqs).length + SumLengths(Tail(reqs))

PairwiseDisjoint(reqs) ==
    \A j, k \in 1..Len(reqs) :
        j < k => \/ reqs[j].begin + reqs[j].length <= reqs[k].begin
                 \/ reqs[k].begin + reqs[k].length <= reqs[j].begin

\* The c-th call opened the accumulator first, and what it has enqueued so
\* far are the first Requests of the piece, in ascending offset order: the
\* k-th has begin (k-1) * BLOCK_SIZE and length BLOCK_SIZE, but for the last
\* of the ceil(L / BLOCK_SIZE), whose length is the remainder L - begin.
EnqueuesBlocksInOrder(c) ==
    LET L == brokerHist.calls[c].piece_length
        index == brokerHist.calls[c].index
        log == CallLog(c)
        reqs == Enqueued(c)
    IN  /\ log # <<>>
        /\ log[1] = [call |-> c, op |-> "new_piece", index |-> index, length |-> L]
        /\ \A k \in 2..Len(log) : log[k].op = "queue"
        /\ Len(reqs) <= NumBlocks(L)
        /\ \A k \in 1..Len(reqs) :
              LET begin == (k - 1) * BLOCK_SIZE
              IN  reqs[k] = Request(index, begin,
                                    IF k < NumBlocks(L) THEN BLOCK_SIZE ELSE L - begin)

\* Once the c-th call has returned it has enqueued exactly ceil(L /
\* BLOCK_SIZE) Requests, of pairwise disjoint ranges whose lengths sum to L.
EnqueuesAllBlocks(c) ==
    LET L == brokerHist.calls[c].piece_length
        reqs == Enqueued(c)
    IN  Returned(c) =>
            /\ Len(reqs) = NumBlocks(L)
            /\ PairwiseDisjoint(reqs)
            /\ SumLengths(reqs) = L

\* C9 (as stated): request_piece(index, L) opens an accumulator for index and
\* then enqueues, in ascending offset order, exactly ceil(L / 16384) Requests
\* with begin 0, 16384, ... and length 16384 for every block but the last,
\* whose length is L - begin; the ranges are pairwise disjoint and sum to L;
\* and every L <= 16384 yields exactly one Request{index, 0, L}.
C9_RequestPieceBlocks ==
    \A c \in 1..Len(brokerHist.calls) :
        /\ EnqueuesBlocksInOrder(c)
        /\ EnqueuesAllBlocks(c)
        /\ (Returned(c) /\ brokerHist.calls[c].piece_length <= BLOCK_SIZE)
              => Enqueued(c) = <<Request(brokerHist.calls[c].index, 0,
                                         brokerHist.calls[c].piece_length)>>

\* C9 (amended): as above, but exactly one Request{index, 0, L} is enqueued
\* for 1 <= L <= 16384 only; request_piece(index, 0) opens the accumulator
\* and enqueues nothing.
C9_RequestPieceBlocksOfPositiveLength ==
    \A c \in 1..Len(brokerHist.calls) :
        LET L == brokerHist.calls[c].piece_length
        IN  /\ EnqueuesBlocksInOrder(c)
            /\ EnqueuesAllBlocks(c)
            /\ (Returned(c) /\ 1 <= L /\ L <= BLOCK_SIZE)
                  => Enqueued(c) = <<Request(brokerHist.calls[c].index, 0, L)>>
            /\ (Returned(c) /\ L = 0) => Enqueued(c) = <<>>

\* Two calls have returned: one for a piece of a single short block, one for
\* a piece of three blocks the last of which is the remainder.
C9_Witness ==
    /\ Len(brokerHist.calls) = 2
    /\ calling.pc = "idle"
    /\ brokerHist.calls[1].piece_length = 7232
    /\ Len(Enqueued(1)) = 1
    /\ brokerHist.calls[2].piece_length = 2 * BLOCK_SIZE + 1
    /\ Len(Enqueued(2)) = 3
    /\ Enqueued(2)[3].length = 1

----------------------------------------------------------------------------
(* Claims about the download coordinator (DownloadSpec).                    *)

\* The piece has the SHA-1 expected for its index.
HashMatches(piece) ==
    sha1_hash(piece.data) = piece_hashes(run.info)[piece.index + 1]

\* The pieces run has received whose hash is not the expected one.
Mismatched == {k \in 1..Len(run.pieces) : ~HashMatches(run.pieces[k])}

\* C10: the coordinator checks the SHA-1 of every received piece against the
\* expected hash for its index: an output file is never written from a piece
\* whose hash mismatches, and once a mismatching piece has been received the
\* run has ended in failure with no output written.
C10_PieceIntegrity ==
    /\ output.written => Mismatched = {}
    /\ Mismatched # {} => (run.state = "failed" /\ ~output.written)

\* The piece of index i that run has received.
ReceivedPiece(i) == CHOOSE p \in Range(run.pieces) : p.index = i

\* The bytes of the received pieces of index i, i + 1, ..., n - 1, one after
\* the other.
RECURSIVE ConcatFrom(_, _)
ConcatFrom(i, n) ==
    IF i >= n THEN <<>> ELSE Cat(ReceivedPiece(i).data, ConcatFrom(i + 1, n))

\* C11: whatever the order in which the pieces completed and arrived, the
\* file written holds the n pieces (one of each index 0..n-1), their bytes
\* one after the other in ascending order of index.
C11_FileInIndexOrder ==
    output.written =>
        LET n == num_pieces(run.info)
        IN  /\ \A i \in 0..(n - 1) :
                  Cardinality({k \in DOMAIN run.pieces : run.pieces[k].index = i}) = 1
            /\ output.file_data = ConcatFrom(0, n)

\* The file of a torrent of three pieces was written after the pieces
\* arrived from two peers out of the order of their indexes.
C11_Witness ==
    /\ output.written
    /\ Len(brokers) = 2
    /\ run.received = <<1, 0, 2>>

----------------------------------------------------------------------------
(* Claims about the frame codec (CodecSpec).                                *)

\* C13: for every message with valid fields, the length that the first four
\* bytes of its frame hold, big-endian, is the number of bytes that follow
\* them, and decoding those bytes yields the message that was encoded.
C13_CodecRoundTrip ==
    /\ codec.pc \in {"frame", "decoded"} =>
          u32_from_bytes(codec.frame) = Len(codec.frame) - 4
    /\ codec.pc = "decoded" =>
          /\ codec.length = Len(codec.frame) - 4
          /\ codec.result = [ok |-> TRUE, msg |-> codec.msg]

\* A Metadata frame, with its raw bytes after the dictionary, was decoded.
C13_Witness ==
    /\ codec.pc = "decoded"
    /\ codec.msg.type = "Metadata"
    /\ codec.msg.data = ToBytes(<<101, 49>>)
    /\ codec.result.ok

----------------------------------------------------------------------------
(* Claims about the frame reader (ReaderSpec).                              *)

\* C14: the reader never drops bytes: however the stream of the frames f1,
\* f2, ... is split into read chunks, the k-th read_message call returns the
\* message of the k-th frame, and the bytes read beyond a returned frame are
\* there for the next call.
C14_ReaderNeverDropsBytes ==
    /\ \A k \in DOMAIN stream.returned :
          stream.returned[k] = [ok |-> TRUE, msg |-> stream.sent[k]]
    /\ stream.pc = "idle" =>
          stream.unread = Frames(SubSeq(stream.sent, Len(stream.returned) + 1, Len(stream.sent)))

----------------------------------------------------------------------------
(* Claims about the bytes of an emitted piece (PieceSpec).                  *)

\* The pieces emitted so far, each with the accumulator (the declared length
\* and the held blocks) it was made from.
Emitted ==
    {pmHist.calls[c].emitted[1] :
        c \in {d \in DOMAIN pmHist.calls :
                 pmHist.calls[d].op = "insert_block" /\ pmHist.calls[d].emitted # <<>>}}

\* The bytes data[begin .. begin + len(block)] are those of block.
RangeEquals(data, begin, block) ==
    /\ begin + BytesLen(block) <= BytesLen(data)
    /\ Take(Drop(data, begin), BytesLen(block)) = Norm(block)

\* Position k is within a held block.
Covered(held, k) ==
    \E begin \in DOMAIN held.blocks : begin <= k /\ k < begin + BytesLen(held.blocks[begin])

UncoveredAreZero(e) ==
    \A k \in 0..(BytesLen(e.piece.data) - 1) :
        ~Covered(e.held, k) => ByteAt(e.piece.data, k) = 0

NoOverlap(held) ==
    \A b1, b2 \in DOMAIN held.blocks :
        b1 < b2 => b1 + BytesLen(held.blocks[b1]) <= b2

\* C15 as stated: every emitted piece has the declared length, holds every
\* held block at its offset, and is zero wherever no block covers it.
C15_PieceBytes ==
    \A e \in Emitted :
        /\ BytesLen(e.piece.data) = e.held.length
        /\ \A begin \in DOMAIN e.held.blocks :
              RangeEquals(e.piece.data, begin, e.held.blocks[begin])
        /\ UncoveredAreZero(e)

\* C15, amended: every emitted piece has the declared length and is zero
\* wherever no block covers it, and holds every held block at its offset
\* when no two held blocks overlap.
C15_PieceBytesWithoutOverlap ==
    \A e \in Emitted :
        /\ BytesLen(e.piece.data) = e.held.length
        /\ NoOverlap(e.held) =>
              \A begin \in DOMAIN e.held.blocks :
                  RangeEquals(e.piece.data, begin, e.held.blocks[begin])
        /\ UncoveredAreZero(e)

\* A piece of three bytes was emitted from two blocks that do not overlap,
\* the second of them not at offset 0.
C15_Witness ==
    \E e \in Emitted :
        /\ e.held.length = 3
        /\ DOMAIN e.held.blocks = {0, 1}
        /\ NoOverlap(e.held)
        /\ e.held.blocks[1] = Rep(1, 2)

----------------------------------------------------------------------------
(* Claims about the setup of the peers (SetupSpec).                         *)

\* The peers that complete both the handshake and ready().
Survivors == {p \in DOMAIN setup.peers : setup.peers[p] = "serves"}

\* C16: setup gathers exactly the peers that complete the handshake and
\* ready(): a peer that fails either is skipped without failing the others,
\* and setup ends in failure if and only if no peer remains.
C16_SetupGathersSurvivors ==
    /\ setup.pc = "Ok" => Range(setup.brokers) = Survivors /\ Survivors # {}
    /\ setup.pc = "Err" => Survivors = {}

----------------------------------------------------------------------------
(* Claims about the handshake (HandshakeSpec).                              *)

\* C17: connect succeeds only if the info-hash in the peer's 68-byte reply
\* is the info-hash the client sent; after a reply with another info-hash
\* connect has failed and there is no session for the peer.
C17_HandshakeValidation ==
    /\ shake.pc = "Ok" => Handshake_info_hash(shake.reply) = shake.info_hash
    /\ (shake.pc \in {"Ok", "Err"} /\ Len(shake.reply) = HANDSHAKE_SIZE
           /\ Handshake_info_hash(shake.reply) # shake.info_hash)
          => (shake.pc = "Err" /\ "session" \notin DOMAIN shake)

----------------------------------------------------------------------------
(* Claims about the metadata of a magnet link (MagnetSpec).                 *)

\* C18: the metadata got through ut_metadata is accepted as the info
\* dictionary only if its SHA-1 is the info-hash of the magnet link;
\* with another SHA-1 the retrieval fails and nothing is downloaded from it.
C18_MetadataVerified ==
    magnet.pc = "Ok" => sha1_hash(magnet.data) = magnet.info_hash

----------------------------------------------------------------------------
(* Claims about the piece-length function (MetaSpec).                       *)

\* C19: the piece length is piece_length for every index but the last and
\* length - piece_length * (n - 1) for the last index n - 1, and it is in
\* 1..piece_length for every torrent, also when length is a multiple of
\* piece_length.
C19_PieceLength ==
    meta.pc = "length" =>
        LET t == meta.torrent
        IN  /\ meta.length = IF meta.index # t.num_pieces - 1 THEN t.piece_length
                             ELSE t.length - t.piece_length * (t.num_pieces - 1)
            /\ meta.length \in 1..t.piece_length

----------------------------------------------------------------------------
(* Claims about done for a key that is not in flight (ThrottleSpec).        *)

\* C20: done(key) for a key that is not in flight removes from the waiting
\* FIFO exactly the items whose key is key: the waiting items of every
\* other key stay, in their order, and the in-flight set is unchanged.
C20_DoneNotInFlightDropsKey ==
    [][(/\ tqHist'.dones = tqHist.dones + 1
        /\ tqHist'.last.hash \notin tq.processings)
       => LET OtherKey(item) == key_hash(item) # tqHist'.last.hash
          IN  /\ tq'.waitings = SelectSeq(tq.waitings, OtherKey)
              /\ tq'.processings = tq.processings]_vars

----------------------------------------------------------------------------
(* Claims about the reader task of the Broker (BrokerSpec).                 *)

\* The reader of broker 1 handles a frame in this step.
ReaderHandles == inbound[1].frames # <<>> /\ inbound'[1].frames = Tail(inbound[1].frames)

\* C21: a Choke, or any other frame that is not a Piece, only pauses: when
\* the reader handles it the in-flight set and the waiting FIFO of the
\* throttled queue stay as they are, so no pending request is lost.
C21_ChokeOnlyPauses ==
    [][(ReaderHandles /\ Head(inbound[1].frames).type # "Piece")
       => /\ brokers'[1].queue.waitings = brokers[1].queue.waitings
          /\ brokers'[1].queue.processings = brokers[1].queue.processings]_vars

----------------------------------------------------------------------------
(* Claims about duplicate keys in the ThrottleQueue (ThrottleSpec).         *)

\* C22: in every reachable state, after any sequence of queue and done
\* calls, no key is both in flight and the key of a waiting item.
C22_NoKeyInFlightAndWaiting ==
    \A i \in DOMAIN tq.waitings : key_hash(tq.waitings[i]) \notin tq.processings

\* The items handed to the sender with the key hash.
SentWithKey(hash) == {i \in DOMAIN tq.sent : key_hash(tq.sent[i]) = hash}

\* C23: at most one in flight per key: every in-flight key is the key of
\* exactly one item that was sent and not yet acknowledged.  (Stated for the
\* states before the first done call, where every sent item is
\* unacknowledged.)
C23_OneInFlightPerKey ==
    tqHist.dones = 0 =>
        \A hash \in tq.processings : Cardinality(SentWithKey(hash)) = 1

\* Arc::strong_count of the PieceManager of a Broker the holder still has:
\* the Broker's `pieces`, and the reader task's pieces_pointer while the task
\* is alive.
pieces_strong_count(b) == 1 + (IF b.reader = "running" THEN 1 ELSE 0)

\* The piece channel is closed when its Sender is dropped, and the Sender is
\* dropped with the last handle of the PieceManager.
piece_channel_closed(b) == pieces_strong_count(b) = 0

\* piece_rx.recv() yields None: the channel is closed and nothing is left.
recv_none(b) == piece_channel_closed(b) /\ b.pieces.sender.buf = <<>>

\* BrokerSpec where the reader task and the holder's call are scheduled.
FairBrokerSpec ==
    BrokerSpec /\ WF_vars(ReaderMessage(1)) /\ WF_vars(ReaderEnd(1))
               /\ WF_vars(SendPieceRequest)

\* C24: when the peer's stream has ended, the reader task stops and the
\* piece channel is closed: the holder of the receiver eventually gets
\* end-of-stream, also while the Broker is alive.
C24_StreamEndClosesChannel ==
    (inbound[1].closed /\ inbound[1].frames = <<>>)
        ~> (brokers[1].reader # "running" /\ recv_none(brokers[1]))

----------------------------------------------------------------------------
(* Claims about the mutexes of a Broker (LockSpec).                         *)

HeldBy_task(t) == {m \in Mutexes : locks.owner[m] = t}

\* C26: no task ever holds two of the Broker's mutexes at the same time.
C26_NoTwoMutexes ==
    \A t \in {"reader", "holder"} : Cardinality(HeldBy_task(t)) <= 1

----------------------------------------------------------------------------
(* Claims about opening and delivering (PieceSpec).                         *)

\* The call made by this step of the PieceManager.
LastCall == pmHist'.calls[Len(pmHist'.calls)]

IsCall(op) == Len(pmHist'.calls) = Len(pmHist.calls) + 1 /\ LastCall.op = op

\* C27: new_block(index, piece_length) for an index whose accumulator is
\* open (with that length) leaves the accumulator, and the blocks it holds,
\* unchanged.
C27_OpenIdempotent ==
    [][(/\ IsCall("new_block")
        /\ LastCall.index \in DOMAIN pm.blocks
        /\ LastCall.length = pm.blocks[LastCall.index].length)
       => pm'.blocks[LastCall.index] = pm.blocks[LastCall.index]]_vars

\* C28: insert_block(index, begin, data) for an index with no open
\* accumulator fails (OrphanBlock) and stores nothing.
C28_OrphanBlockFails ==
    [][(IsCall("insert_block") /\ LastCall.index \notin DOMAIN pm.blocks)
       => (LastCall.result # "Ok" /\ pm' = pm)]_vars

\* C29: in every reachable state, whatever offsets and block lengths were
\* delivered, the lengths of the blocks an open accumulator holds sum to at
\* most its declared piece length.
C29_HeldWithinPieceLength ==
    \A i \in DOMAIN pm.blocks : Blocks_len(pm.blocks[i]) <= pm.blocks[i].length

----------------------------------------------------------------------------
(* Claims about the receiving loop of the coordinator (CollectSpec).        *)

----------------------------------------------------------------------------
(* Claims about the download after the failure of a peer (PeerFailureSpec). *)

\* What run, the forwarding tasks and peers that answer do, and the end of
\* a reader task.
RunAndPeersProgress ==
    \/ RunRequestPiece
    \/ SendPieceRequest
    \/ RunRecv
    \/ \E b \in DOMAIN brokers : ReaderEnd(b)
    \/ \E b \in DOMAIN brokers : Forward(b)
    \/ \E b \in DOMAIN brokers : PeerAnswer(b)

PeerFailureNext ==
    \/ RunAndPeersProgress
    \/ \E b \in DOMAIN brokers : ReaderMessage(b)
    \/ \E b \in DOMAIN brokers : PeerClose(b)

\* The reader task of broker b has a frame to handle and need not wait.
ReaderReady(b) ==
    /\ b \in DOMAIN brokers
    /\ brokers[b].reader = "running"
    /\ inbound[b].frames # <<>>
    /\ ~reader_waits(brokers[b], Head(inbound[b].frames))

\* Weak fairness of ReaderMessage(b), with ReaderReady(b) for its ENABLED.
ReaderFair(b) ==
    []<>(~ReaderReady(b)) \/ []<><<b \in DOMAIN brokers /\ ReaderMessage(b)>>_vars

\* The download with peers that answer every Request, never choke and never
\* corrupt, and whose connections may end at any time; the tasks are
\* scheduled as long as one of them can take a step.
PeerFailureSpec ==
    /\ DownloadInit /\ [][PeerFailureNext]_vars
    /\ WF_vars(RunAndPeersProgress)
    /\ \A b \in 1..MaxPeers : ReaderFair(b)

\* C31: the failure of one peer's connection after setup does not stall
\* the download: it completes unless every connection has ended.
C31_PeerFailureDoesNotStall ==
    <>(run.state = "done" \/ \A b \in DOMAIN brokers : inbound[b].closed)

----------------------------------------------------------------------------
(* ReadySpec: ready() of a PeerStream (net/peer.rs) and of a PeerConnection *)
(* (peers/peer.rs) after the handshake.  The peer writes frames, one at a   *)
(* time, and may close the connection; ready() reads one frame after the    *)
(* other and writes Interested.                                             *)

MaxSessionFrames == 4

\* The frame of length 0.
KeepAliveFrame == to_be_bytes(0)

SessionFrames ==
    {PeerMessage_as_bytes(m) : m \in {Bitfield(Rep(255, 1)), Have(7), Unchoke, Choke}}
    \cup {KeepAliveFrame}

\* A predicate that holds of every message.
is_any_message(msg) == TRUE

\* PeerMessage::is_bitfield with Message::as_peer_message
is_bitfield(msg) == msg.type = "Bitfield"

\* PeerMessage::is_unchoke with Message::as_peer_message
is_unchoke(msg) == msg.type = "Unchoke"

\* The message of one whole frame: what reader.next() and read_message
\* give for it.
frame_message(frame) == build_if_ready(write_all(MessageBuf_new, frame)).result

ReadyInit ==
    /\ session = [pc |-> "wait_bitfield", frames |-> <<>>, closed |-> FALSE,
                  sent |-> <<>>, log |-> <<>>]
    /\ CodecIdle
    /\ StreamIdle
    /\ SetupIdle
    /\ ShakeIdle
    /\ MagnetIdle
    /\ MetaIdle
    /\ LocksIdle
    /\ PipelineIdle
    /\ AttemptIdle
    /\ ThrottleIdle
    /\ PieceIdle
    /\ PoolIdle
    /\ BrokerIdle
    /\ DownloadIdle

readyFrame ==
    <<codec, stream, setup, shake, magnet, meta, locks, pipeline, attempt,
      throttleVars, pieceVars, poolVars, brokerVars, downloadVars>>

\* The peer writes a frame.
SessionPeerWrite ==
    /\ ~session.closed
    /\ Len(session.sent) < MaxSessionFrames
    /\ \E f \in SessionFrames :
          session' = [session EXCEPT !.frames = Append(@, f), !.sent = Append(@, f)]
    /\ UNCHANGED readyFrame

\* The peer closes the connection.
SessionPeerClose ==
    /\ ~session.closed
    /\ session' = [session EXCEPT !.closed = TRUE]
    /\ UNCHANGED readyFrame

\* wait_message, one turn of the loop with a frame read: its error is
\* returned, a message the predicate holds of ends the wait (then), any
\* other message is dropped.
wait_message(s, predicate(_), then) ==
    LET msg == frame_message(Head(s.frames))
    IN  [s EXCEPT
            !.frames = Tail(@),
            !.log = Append(@, [ev |-> "read", result |-> msg]),
            !.pc = IF ~msg.ok THEN "Err"
                   ELSE IF predicate(msg.msg) THEN then
                   ELSE @]

\* wait_message at the end of the stream: Err(ConnectionClosed).
WaitMessageEnd ==
    /\ session.pc \in {"wait_bitfield", "wait_unchoke"}
    /\ session.frames = <<>>
    /\ session.closed
    /\ session' = [session EXCEPT !.pc = "Err"]
    /\ UNCHANGED readyFrame

\* wait_bitfield
WaitBitfield ==
    /\ session.pc = "wait_bitfield"
    /\ session.frames # <<>>
    /\ session' = wait_message(session, is_bitfield, "send_interested")
    /\ UNCHANGED readyFrame

\* send_interested: write_all of the frame of Interested; the write may
\* fail once the peer has closed.
SendInterested ==
    /\ session.pc = "send_interested"
    /\ \/ session' = [session EXCEPT
              !.pc = "wait_unchoke",
              !.log = Append(@, [ev |-> "write", msg |-> Interested])]
       \/ /\ session.closed
          /\ session' = [session EXCEPT !.pc = "Err"]
    /\ UNCHANGED readyFrame

\* wait_unchoke
WaitUnchoke ==
    /\ session.pc = "wait_unchoke"
    /\ session.frames # <<>>
    /\ session' = wait_message(session, is_unchoke, "Ok")
    /\ UNCHANGED readyFrame

\* The steps of ready().
Ready ==
    \/ WaitBitfield
    \/ SendInterested
    \/ WaitUnchoke
    \/ WaitMessageEnd

ReadyNext ==
    \/ SessionPeerWrite
    \/ SessionPeerClose
    \/ Ready

ReadySpec == ReadyInit /\ [][ReadyNext]_vars

\* ready() is not suspended forever while it can take a step.
FairReadySpec == ReadySpec /\ WF_vars(Ready)

----------------------------------------------------------------------------
(* Claims about ready() (ReadySpec, FairReadySpec).                         *)

\* log[i] is the reading of a message of this type.
ReadOf(i, type) ==
    /\ session.log[i].ev = "read"
    /\ session.log[i].result.ok
    /\ session.log[i].result.msg.type = type

WroteInterested(j) ==
    /\ session.log[j].ev = "write"
    /\ session.log[j].msg = Interested

InterestedAfterBitfield ==
    \A j \in DOMAIN session.log :
        WroteInterested(j) => \E i \in 1..(j - 1) : ReadOf(i, "Bitfield")

OkAfterUnchoke ==
    session.pc = "Ok" =>
        \E j \in DOMAIN session.log : \E k \in (j + 1)..Len(session.log) :
            WroteInterested(j) /\ ReadOf(k, "Unchoke")

\* ready() awaits a message, every frame has been read and the peer has
\* closed the connection.
StreamEndedBeforeAwaited ==
    /\ session.pc \in {"wait_bitfield", "wait_unchoke"}
    /\ session.frames = <<>>
    /\ session.closed

\* C32: ready() waits for a Bitfield, sends Interested, waits for an
\* Unchoke: Interested is not sent before a Bitfield was received, Ok is
\* not returned before an Unchoke was received after Interested was sent,
\* and the end of the stream before the awaited message gives an error.
C32_ReadyOrder ==
    /\ [](InterestedAfterBitfield /\ OkAfterUnchoke)
    /\ StreamEndedBeforeAwaited ~> (session.pc = "Err")

\* ready() has returned Ok after dropping a message it did not wait for.
C32_Witness ==
    /\ session.pc = "Ok"
    /\ Len(session.log) > 3

\* The peer has sent Have messages and then Unchoke, and nothing else.
SentOnlyHaveThenUnchoke ==
    /\ Len(session.sent) >= 2
    /\ session.sent[Len(session.sent)] = PeerMessage_as_bytes(Unchoke)
    /\ \A i \in 1..(Len(session.sent) - 1) : session.sent[i] = PeerMessage_as_bytes(Have(7))

\* C33: for a peer that sends only Have messages and then Unchoke, never
\* a Bitfield, ready() eventually returns Ok.
C33_ReadyWithoutBitfield ==
    SentOnlyHaveThenUnchoke ~> (session.pc = "Ok" \/ ~SentOnlyHaveThenUnchoke)

\* The peer has sent a Bitfield and an Unchoke, in either order, and
\* nothing else.
SentBitfieldAndUnchoke ==
    LET b == PeerMessage_as_bytes(Bitfield(Rep(255, 1)))
        u == PeerMessage_as_bytes(Unchoke)
    IN  session.sent \in {<<b, u>>, <<u, b>>}

\* C39: once the peer has sent a Bitfield and an Unchoke, in either order,
\* and sends nothing further, ready() returns Ok.
C39_UnchokeBeforeBitfieldNotLost ==
    SentBitfieldAndUnchoke ~> (session.pc = "Ok" \/ ~SentBitfieldAndUnchoke)

\* ready() reads a keepalive frame in this step.
ReadsKeepAlive ==
    /\ session.frames # <<>>
    /\ Head(session.frames) = KeepAliveFrame
    /\ session'.frames = Tail(session.frames)

\* C34: a keepalive frame that is read yields no error and leaves the
\* session where it was: the reader goes on to the next frame.
C34_KeepAliveIgnored ==
    [][ReadsKeepAlive => session'.pc = session.pc]_vars

----------------------------------------------------------------------------
(* Claims about blocks out of the range of their piece (PieceSpec).         *)

\* Every block held lies within [0, length).
HeldWithinPiece(b) ==
    \A o \in DOMAIN b.blocks : o + BytesLen(b.blocks[o]) <= b.length

\* C38: no insert_block call fails by indexing out of range, whatever
\* block the peer sends, and a piece is only built from blocks that lie
\* within [0, piece_length).
C38_InsertBlockInRange ==
    \A c \in DOMAIN pmHist.calls :
        pmHist.calls[c].op = "insert_block" =>
            /\ pmHist.calls[c].result # "panic"
            /\ \A e \in DOMAIN pmHist.calls[c].emitted :
                    HeldWithinPiece(pmHist.calls[c].emitted[e].held)

----------------------------------------------------------------------------
(* PipelineSpec: one call of PeerConnection::download_piece (peers/peer.rs) *)
(* on a connection to a peer that answers every Request exactly once with   *)
(* the matching Piece, in any order.  Each block task reads from its clone  *)
(* of the one TCP stream: a message read by a task is gone for the others.  *)
(* A read_message call of a task is taken to return one whole frame of the  *)
(* stream.  The block at offset k * BLOCK_SIZE holds the byte k + 1.        *)

PIPELINE_SIZE == 5

MaxPipelineBlocks == 6

PipelineLengths ==
    {BLOCK_SIZE * k : k \in 1..MaxPipelineBlocks}
    \cup {BLOCK_SIZE * k - 100 : k \in 1..MaxPipelineBlocks}

PipelineIndex == 1

BlockOffsets(len) == {o \in 0..(len - 1) : o % BLOCK_SIZE = 0}

BlockAt(len, offset) ==
    Rep(offset \div BLOCK_SIZE + 1, Min(BLOCK_SIZE, len - offset))

\* The content of the piece: its blocks in ascending order of offset.
RECURSIVE PieceFrom(_, _)
PieceFrom(len, offset) ==
    IF offset >= len THEN <<>>
    ELSE Cat(BlockAt(len, offset), PieceFrom(len, offset + BLOCK_SIZE))

\* downloads.into_iter().flat_map(|d| d.block).collect()
RECURSIVE flat_block(_)
flat_block(downloads) ==
    IF downloads = <<>> THEN <<>> ELSE Cat(Head(downloads).block, flat_block(Tail(downloads)))

PipelineInit ==
    /\ \E len \in PipelineLengths :
          pipeline = [pc |-> "spawn", index |-> PipelineIndex, piece_length |-> len,
                      tasks |-> <<>>, triggers |-> 0, requests |-> {}, socket |-> <<>>,
                      returned |-> <<>>, downloads |-> <<>>, lost |-> {}, result |-> <<>>]
    /\ CodecIdle
    /\ StreamIdle
    /\ SetupIdle
    /\ ShakeIdle
    /\ MagnetIdle
    /\ MetaIdle
    /\ LocksIdle
    /\ SessionIdle
    /\ AttemptIdle
    /\ ThrottleIdle
    /\ PieceIdle
    /\ PoolIdle
    /\ BrokerIdle
    /\ DownloadIdle

pipelineFrame ==
    <<codec, stream, setup, shake, magnet, meta, locks, session, attempt,
      throttleVars, pieceVars, poolVars, brokerVars, downloadVars>>

\* The first loop and the first triggers: a task per block, each awaiting
\* its trigger, and the first min(triggers.len(), PIPELINE_SIZE) triggers
\* sent.
SpawnTasks ==
    /\ pipeline.pc = "spawn"
    /\ LET n == Cardinality(BlockOffsets(pipeline.piece_length))
           channel_count == Min(n, PIPELINE_SIZE)
       IN  pipeline' = [pipeline EXCEPT
               !.pc = "join_next",
               !.tasks = [t \in 1..n |->
                            [pc |-> IF t <= channel_count THEN "request" ELSE "rx",
                             offset |-> (t - 1) * BLOCK_SIZE,
                             block_size |-> Min(BLOCK_SIZE,
                                                pipeline.piece_length - (t - 1) * BLOCK_SIZE)]],
               !.triggers = channel_count]
    /\ UNCHANGED pipelineFrame

\* A triggered task sends its Request.
TaskRequest(t) ==
    /\ pipeline.pc # "spawn"
    /\ t \in DOMAIN pipeline.tasks
    /\ pipeline.tasks[t].pc = "request"
    /\ pipeline' = [pipeline EXCEPT
            !.tasks[t].pc = "read_message",
            !.requests = @ \cup {Request(pipeline.index, pipeline.tasks[t].offset,
                                         pipeline.tasks[t].block_size)}]
    /\ UNCHANGED pipelineFrame

\* The peer answers a Request it has received with the Piece of that block.
PipelinePeerAnswer ==
    /\ \E req \in pipeline.requests :
          pipeline' = [pipeline EXCEPT
              !.requests = @ \ {req},
              !.socket = Append(@, PieceMessage(req.index, req.begin,
                                                BlockAt(pipeline.piece_length, req.begin)))]
    /\ UNCHANGED pipelineFrame

\* One turn of a task's loop: the next message of the stream is read; the
\* task returns its Download if it is the Piece of its index and offset,
\* and reads again otherwise.
TaskReadMessage(t) ==
    /\ t \in DOMAIN pipeline.tasks
    /\ pipeline.tasks[t].pc = "read_message"
    /\ pipeline.socket # <<>>
    /\ LET msg == Head(pipeline.socket)
           mine == /\ msg.type = "Piece"
                   /\ msg.index = pipeline.index
                   /\ msg.begin = pipeline.tasks[t].offset
       IN  pipeline' = [pipeline EXCEPT
               !.socket = Tail(@),
               !.tasks[t] = IF mine
                            THEN [pc |-> "returned", offset |-> @.offset,
                                  block_size |-> @.block_size,
                                  download |-> [index |-> pipeline.index, block |-> msg.block]]
                            ELSE @,
               !.returned = IF mine THEN Append(@, t) ELSE @,
               !.lost = IF mine THEN @ ELSE @ \cup {msg.begin}]
    /\ UNCHANGED pipelineFrame

\* join_next gives the Download of the task that returned first: it is
\* pushed and the next trigger, if there is one, is sent.
JoinNext ==
    /\ pipeline.pc = "join_next"
    /\ pipeline.returned # <<>>
    /\ LET t == Head(pipeline.returned)
           next == pipeline.triggers + 1
           joined == [pipeline EXCEPT
                         !.tasks[t].pc = "joined",
                         !.returned = Tail(@),
                         !.downloads = Append(@, pipeline.tasks[t].download)]
       IN  pipeline' = IF next \in DOMAIN pipeline.tasks
                       THEN [joined EXCEPT !.tasks[next].pc = "request", !.triggers = next]
                       ELSE joined
    /\ UNCHANGED pipelineFrame

\* join_next gives None: downloads.sort() with the order of Download, which
\* compares the index, and the blocks are concatenated.
PipelineReturn ==
    /\ pipeline.pc = "join_next"
    /\ \A t \in DOMAIN pipeline.tasks : pipeline.tasks[t].pc = "joined"
    /\ pipeline' = [pipeline EXCEPT
            !.pc = "Ok",
            !.downloads = sort_by_index(@),
            !.result = flat_block(sort_by_index(pipeline.downloads))]
    /\ UNCHANGED pipelineFrame

PipelineNext ==
    \/ SpawnTasks
    \/ \E t \in 1..MaxPipelineBlocks : TaskRequest(t)
    \/ PipelinePeerAnswer
    \/ \E t \in 1..MaxPipelineBlocks : TaskReadMessage(t)
    \/ JoinNext
    \/ PipelineReturn

PipelineSpec == PipelineInit /\ [][PipelineNext]_vars

----------------------------------------------------------------------------
(* Claims about the pipelined download_piece (PipelineSpec).                *)

\* C36: every Piece the peer sends reaches the task that waits for its
\* index and offset: no task reads and drops the Piece of another task.
C36_PieceReachesItsTask == pipeline.lost = {}

\* C37: download_piece returns the blocks in ascending order of offset,
\* the content of the piece, whatever the order in which the tasks
\* complete.
C37_BlocksInOffsetOrder ==
    pipeline.pc = "Ok" => pipeline.result = PieceFrom(pipeline.piece_length, 0)

----------------------------------------------------------------------------
(* DownloadPieceSpec: the download-piece command of main.rs from the        *)
(* tracker's response on.  Each peer of the response is of one kind: it     *)
(* refuses the connection, or closes it before ready() has its Unchoke, or  *)
(* serves the piece, or serves bytes whose hash is not the piece's.  The    *)
(* Item of a peer goes back to the Pool some time after it is dropped.      *)

MAX_ATTEMPTS == 5

MaxCommandPeers == 3

CommandPeerKinds == {"refuses", "closes", "serves", "corrupts"}

DownloadPieceInit ==
    /\ \E n \in 1..MaxCommandPeers : \E kinds \in [1..n -> CommandPeerKinds] :
          attempt = [pc |-> "while", peers |-> kinds, pool |-> [i \in 1..n |-> i],
                     returning |-> {}, attempts |-> 0, log |-> <<>>, written |-> FALSE]
    /\ CodecIdle
    /\ StreamIdle
    /\ SetupIdle
    /\ ShakeIdle
    /\ MagnetIdle
    /\ MetaIdle
    /\ LocksIdle
    /\ SessionIdle
    /\ PipelineIdle
    /\ ThrottleIdle
    /\ PieceIdle
    /\ PoolIdle
    /\ BrokerIdle
    /\ DownloadIdle

attemptFrame ==
    <<codec, stream, setup, shake, magnet, meta, locks, session, pipeline,
      throttleVars, pieceVars, poolVars, brokerVars, downloadVars>>

\* One turn of the loop: get_item, connect, ready, download_piece and the
\* comparison of the hashes.  An Err of connect, ready, download_piece or
\* fs::write is returned by run; a piece of the right hash is written and
\* ends the loop; a hash mismatch adds 1 to attempts.  The Item is dropped
\* at the end of the turn.
DownloadPieceAttempt ==
    /\ attempt.pc = "while"
    /\ attempt.attempts < MAX_ATTEMPTS
    /\ attempt.pool # <<>>
    /\ LET peer == Head(attempt.pool)
           kind == attempt.peers[peer]
           turn == [attempt EXCEPT
                        !.pool = Tail(@),
                        !.returning = @ \cup {peer},
                        !.log = Append(@, [peer |-> peer, outcome |-> kind])]
       IN  \/ /\ kind \in {"refuses", "closes"}
              /\ attempt' = [turn EXCEPT !.pc = "Err"]
           \/ /\ kind = "serves"
              /\ \/ attempt' = [turn EXCEPT !.pc = "Ok", !.written = TRUE]
                 \/ attempt' = [turn EXCEPT !.pc = "Err"]
           \/ /\ kind = "corrupts"
              /\ attempt' = [turn EXCEPT !.attempts = @ + 1]
    /\ UNCHANGED attemptFrame

\* The task spawned by the drop of an Item pushes it back to the Pool.
DownloadPieceItemReturn ==
    /\ \E peer \in attempt.returning :
          attempt' = [attempt EXCEPT !.returning = @ \ {peer}, !.pool = Append(@, peer)]
    /\ UNCHANGED attemptFrame

\* The loop ends with attempts = MAX_ATTEMPTS: run goes on to its Ok(()).
DownloadPieceLoopEnd ==
    /\ attempt.pc = "while"
    /\ ~(attempt.attempts < MAX_ATTEMPTS)
    /\ attempt' = [attempt EXCEPT !.pc = "Ok"]
    /\ UNCHANGED attemptFrame

DownloadPieceNext ==
    \/ DownloadPieceAttempt
    \/ DownloadPieceItemReturn
    \/ DownloadPieceLoopEnd

DownloadPieceSpec == DownloadPieceInit /\ [][DownloadPieceNext]_vars

----------------------------------------------------------------------------
(* Claims about the download-piece command (DownloadPieceSpec).             *)

\* C40: the command makes at most MAX_ATTEMPTS attempts, makes another
\* attempt only after a hash mismatch, and ends in success only if the
\* verified piece was written: MAX_ATTEMPTS mismatches end in failure.
C40_BoundedAttempts ==
    /\ Len(attempt.log) <= MAX_ATTEMPTS
    /\ \A i \in 1..(Len(attempt.log) - 1) : attempt.log[i].outcome = "corrupts"
    /\ attempt.pc = "Ok" => attempt.written

----------------------------------------------------------------------------
(* BackpressureSpec: run of cmd/download.rs with one Broker, on a torrent   *)
(* of n pieces of one block each, followed through its mutexes and its      *)
(* channels only: the pieces are counted.  run requests every piece         *)
(* (new_piece under the pieces mutex, queue under the queue mutex) and only *)
(* then receives.  The peer answers every Request sent to it; the reader    *)
(* task handles a Piece holding the queue mutex and the pieces mutex until  *)
(* insert_block has sent the piece on the piece channel; the forwarding     *)
(* task moves the pieces to the merged channel.                             *)

MERGED_CHANNEL_CAPACITY == 100

MaxDownloadPieces == 203

DownloadPieces == {1, 2, MaxDownloadPieces}

BackpressureInit ==
    /\ \E n \in DownloadPieces :
          locks = [pc |-> "download", n |-> n, run |-> "new_piece", index |-> 0,
                   queued |-> 0, read |-> 0, reader |-> "next",
                   piece_channel |-> 0, forwarding |-> 0, merged |-> 0, received |-> 0]
    /\ CodecIdle
    /\ StreamIdle
    /\ SetupIdle
    /\ ShakeIdle
    /\ MagnetIdle
    /\ MetaIdle
    /\ SessionIdle
    /\ PipelineIdle
    /\ AttemptIdle
    /\ ThrottleIdle
    /\ PieceIdle
    /\ PoolIdle
    /\ BrokerIdle
    /\ DownloadIdle

\* The reader task is inside insert_block, in the send on the full piece
\* channel: it holds the queue mutex and the pieces mutex.
ReaderBlockedInSend == locks.reader = "send"

\* The Requests written to the peer and not answered yet: ThrottleQueue's
\* processings.
RequestsInFlight == Min(THROTTLE_CAPACITY, locks.queued - locks.read)

\* request_piece: new_piece locks the pieces mutex.
RunLockPieces ==
    /\ locks.pc = "download"
    /\ locks.run = "new_piece"
    /\ ~ReaderBlockedInSend
    /\ locks' = [locks EXCEPT !.run = "queue"]
    /\ UNCHANGED lockFrame

\* request_piece: queue locks the queue mutex and queues the Request of the
\* one block; after the last piece run goes on to receive.
RunLockQueue ==
    /\ locks.pc = "download"
    /\ locks.run = "queue"
    /\ ~ReaderBlockedInSend
    /\ locks' = [locks EXCEPT
            !.queued = @ + 1,
            !.index = @ + 1,
            !.run = IF locks.index + 1 < locks.n THEN "new_piece" ELSE "recv"]
    /\ UNCHANGED lockFrame

\* The reader task reads the Piece of a Request in flight: it locks the
\* queue mutex, calls done, locks the pieces mutex and calls insert_block,
\* which sends the completed piece: the send returns if the piece channel
\* has room and waits, the mutexes still held, if it is full.
ReaderPiece ==
    /\ locks.pc = "download"
    /\ locks.reader = "next"
    /\ RequestsInFlight > 0
    /\ locks' = IF locks.piece_channel < PIECE_CHANNEL_CAPACITY
                THEN [locks EXCEPT !.read = @ + 1, !.piece_channel = @ + 1]
                ELSE [locks EXCEPT !.read = @ + 1, !.reader = "send"]
    /\ UNCHANGED lockFrame

\* The piece channel has room again: the send returns and the reader task
\* drops its guards.
ReaderSendReturns ==
    /\ locks.pc = "download"
    /\ ReaderBlockedInSend
    /\ locks.piece_channel < PIECE_CHANNEL_CAPACITY
    /\ locks' = [locks EXCEPT !.piece_channel = @ + 1, !.reader = "next"]
    /\ UNCHANGED lockFrame

\* The forwarding task: rx.recv()
ForwardingRecv ==
    /\ locks.pc = "download"
    /\ locks.forwarding = 0
    /\ locks.piece_channel > 0
    /\ locks' = [locks EXCEPT !.piece_channel = @ - 1, !.forwarding = 1]
    /\ UNCHANGED lockFrame

\* The forwarding task: tx.send(piece), which waits while the merged
\* channel is full.
ForwardingSend ==
    /\ locks.pc = "download"
    /\ locks.forwarding = 1
    /\ locks.merged < MERGED_CHANNEL_CAPACITY
    /\ locks' = [locks EXCEPT !.merged = @ + 1, !.forwarding = 0]
    /\ UNCHANGED lockFrame

\* run's second loop: piece_rx.recv(), until every piece is there.
RunRecvPiece ==
    /\ locks.pc = "download"
    /\ locks.run = "recv"
    /\ locks.merged > 0
    /\ locks' = [locks EXCEPT
            !.merged = @ - 1,
            !.received = @ + 1,
            !.run = IF locks.received + 1 = locks.n THEN "done" ELSE "recv"]
    /\ UNCHANGED lockFrame

BackpressureNext ==
    \/ RunLockPieces
    \/ RunLockQueue
    \/ ReaderPiece
    \/ ReaderSendReturns
    \/ ForwardingRecv
    \/ ForwardingSend
    \/ RunRecvPiece

BackpressureSpec == BackpressureInit /\ [][BackpressureNext]_vars

----------------------------------------------------------------------------
(* Claims about the download under back-pressure (BackpressureSpec).        *)

\* run is inside request_piece and waits for the queue mutex.
RunWaitsForQueueMutex == locks.run = "queue" /\ ReaderBlockedInSend

\* No task can take a step and run has not received every piece.
DownloadDeadlocked ==
    /\ locks.run # "done"
    /\ ~ENABLED BackpressureNext

\* C35: the download never reaches a state in which run waits for the
\* queue mutex of a Broker whose reader task holds it, blocked in the send
\* on the full piece channel; no state is a deadlock.
C35_NoMutexHeldOnFullChannel ==
    /\ ~RunWaitsForQueueMutex
    /\ ~DownloadDeadlocked

====
